---- MODULE Spec2Model ----
(***************************************************************************)
(* Model of the six ESLint rules of @ingram-tech/eslint-plugin-recommended *)
(* as state machines over one file traversal each.                         *)
(*                                                                         *)
(* Text is modelled by what it contains: a file name is a sequence of      *)
(* one-character strings, a piece of source code is a sequence of tokens.  *)
(* Ranges are half-open offsets into the token sequence: token i (1-based) *)
(* occupies [i-1, i).                                                      *)
(*                                                                         *)
(* context.report() runs the fix callback while it builds the problem      *)
(* (ESLint's report translator), so a Fix reads the rule's accumulators as *)
(* they are at the moment of the report.                                   *)
(***************************************************************************)
EXTENDS Integers, Sequences, FiniteSets, TLC

VARIABLES
    usText,      \* react-no-redundant-usestate-types: tokens of the call being linted
    usPhase,     \* "parsed" | "linted" | "fixed" | "relinted"
    usDiags,     \* diagnostics of the run on usText
    usFixed,     \* tokens after applying the Fix of usDiags[usPick]
    usPick,      \* index of the diagnostic whose Fix was applied (0: none)
    usDiags2     \* diagnostics of the run on usFixed

usVars == <<usText, usPhase, usDiags, usFixed, usPick, usDiags2>>

VARIABLES
    nmFile,      \* Name Synthesizer: the file name handed to generatePageName
    nmCalls,     \* number of calls made so far
    nmResult     \* what the last call returned

nmVars == <<nmFile, nmCalls, nmResult>>

VARIABLES
    inCall,      \* supabase-no-insert-with-id: the call expression being visited
    inVisited,   \* whether the CallExpression visitor has run on it
    inDiags      \* the diagnostics it reported, in order

inVars == <<inCall, inVisited, inDiags>>

VARIABLES
    rdFilename,  \* next-no-redirect-only-pages: context.filename
    rdActive,    \* whether create() registered the visitors (a page.tsx file)
    rdState,     \* hasRedirectCall, redirectDestination, isSimpleRedirect, redirectNode
    rdPending,   \* nodes of the current top-level statement still to be visited
    rdItems,     \* top-level statements entered so far
    rdVisits,    \* nodes visited so far; a node is named by its visit number
    rdLast,      \* the node visited last
    rdHist,      \* what the traversal has shown so far (history, not read by the rule)
    rdDone,      \* whether Program:exit has run
    rdDiags      \* the diagnostics reported so far, in order

rdVars == <<rdFilename, rdActive, rdState, rdPending, rdItems, rdVisits, rdLast,
            rdHist, rdDone, rdDiags>>

VARIABLES
    pgFilename,  \* nextjs-page-pattern: context.filename
    pgText,      \* the tokens of the file
    pgActive,    \* whether create() registered the visitors (a page.tsx file)
    pgRun,       \* 1: the run on pgText; 2: the run on pgFixed
    pgState,     \* hasNextPageImport and defaultExport of the current run
    pgPending,   \* nodes of the current run still to be visited
    pgDiags,     \* diagnostics of the run on pgText, in order
    pgPick,      \* index of the diagnostic whose Fix was applied (0: none)
    pgFixed,     \* tokens after applying the Fix of pgDiags[pgPick]
    pgDiags2     \* diagnostics of the run on pgFixed

pgVars == <<pgFilename, pgText, pgActive, pgRun, pgState, pgPending, pgDiags, pgPick,
            pgFixed, pgDiags2>>

VARIABLES
    icText,      \* lucide-icon-suffix: the tokens of the file
    icPhase,     \* "off" | "parsed" | "linted" | "fixed" | "relinted"
    icDiags,     \* diagnostics of the run on icText, in order
    icPick,      \* index of the diagnostic whose Fix was applied (0: none)
    icFixed,     \* tokens after applying the Fix of icDiags[icPick]
    icDiags2     \* diagnostics of the run on icFixed

icVars == <<icText, icPhase, icDiags, icPick, icFixed, icDiags2>>

VARIABLES
    diFilename,  \* supabase-no-direct-imports: context.filename
    diImport,    \* the import declaration being visited
    diVisited,   \* whether the ImportDeclaration visitor has run on it
    diDiags      \* the diagnostics it reported, in order

diVars == <<diFilename, diImport, diVisited, diDiags>>

VARIABLES
    tvSlots,     \* concurrent traversals of the two page rules: slot -> traversal
    tvCreated    \* number of create() calls made so far

tvVars == <<tvSlots, tvCreated>>

vars == <<usVars, nmVars, inVars, rdVars, pgVars, icVars, diVars, tvVars>>

\* No traversal has been started in any slot
TVIdle == tvSlots = <<>> /\ tvCreated = 0

\* The two import rules before any file is handed to them
ICIdle ==
    /\ icText = <<>> /\ icPhase = "off" /\ icDiags = <<>>
    /\ icPick = 0 /\ icFixed = <<>> /\ icDiags2 = <<>>

DIIdle ==
    /\ diFilename = <<>>
    /\ diImport = [source |-> <<>>, specifiers |-> <<>>, sourceRange |-> <<0, 0>>]
    /\ diVisited = FALSE /\ diDiags = <<>>

-----------------------------------------------------------------------------
(* Generic helpers on sequences *)

Range(s) == {s[i] : i \in 1..Len(s)}

Slice(s, lo, hi) == IF lo > hi THEN <<>> ELSE SubSeq(s, lo, hi)

RECURSIVE Flatten(_)
Flatten(ss) == IF ss = <<>> THEN <<>> ELSE Head(ss) \o Flatten(Tail(ss))

\* All sequences over S of length lo..hi
SeqsOf(S, lo, hi) == UNION {[1..n -> S] : n \in lo..hi}

\* String.prototype.startsWith / endsWith / includes on character sequences
StartsWith(s, p) == Len(p) <= Len(s) /\ SubSeq(s, 1, Len(p)) = p

EndsWith(s, p) == Len(p) <= Len(s) /\ SubSeq(s, Len(s) - Len(p) + 1, Len(s)) = p

Includes(s, p) == \E i \in 0..(Len(s) - Len(p)) : SubSeq(s, i + 1, i + Len(p)) = p

\* String.prototype.split(sep) for a one-character separator
RECURSIVE SplitAcc(_, _, _)
SplitAcc(s, sep, cur) ==
    IF s = <<>> THEN <<cur>>
    ELSE IF Head(s) = sep THEN <<cur>> \o SplitAcc(Tail(s), sep, <<>>)
    ELSE SplitAcc(Tail(s), sep, Append(cur, Head(s)))

Split(s, sep) == SplitAcc(s, sep, <<>>)

\* Array.prototype.join(sep)
RECURSIVE Join(_, _)
Join(parts, sep) ==
    IF parts = <<>> THEN <<>>
    ELSE IF Len(parts) = 1 THEN parts[1]
    ELSE parts[1] \o sep \o Join(Tail(parts), sep)

-----------------------------------------------------------------------------
(* Text/Range model: edits and their application (the host's fixer)        *)

\* fixer.replaceTextRange / removeRange / insertTextAfterRange all produce
\* { range, text }
Edit(lo, hi, toks) == [range |-> <<lo, hi>>, text |-> toks]

\* ESLint merges the edits of one Fix in the order of compareFixesByRange:
\* by range start, then by range end (the sort is stable).
EditBefore(a, b) ==
    \/ a.range[1] < b.range[1]
    \/ (a.range[1] = b.range[1] /\ a.range[2] < b.range[2])

RECURSIVE SortEdits(_)
SortEdits(es) ==
    IF es = <<>> THEN <<>>
    ELSE LET m == CHOOSE i \in 1..Len(es) :
                    /\ \A j \in 1..Len(es) : ~EditBefore(es[j], es[i])
                    /\ \A j \in 1..(i - 1) : EditBefore(es[i], es[j])
             rest == [k \in 1..(Len(es) - 1) |-> IF k < m THEN es[k] ELSE es[k + 1]]
         IN  <<es[m]>> \o SortEdits(rest)

\* Apply sorted edits to a token sequence: unedited prefix, replacement,
\* unedited gap, replacement, ..., unedited suffix.
RECURSIVE ApplySorted(_, _, _)
ApplySorted(toks, es, pos) ==
    IF es = <<>> THEN Slice(toks, pos + 1, Len(toks))
    ELSE LET e == Head(es)
         IN  Slice(toks, pos + 1, e.range[1]) \o e.text
                 \o ApplySorted(toks, Tail(es),
                                IF e.range[2] > pos THEN e.range[2] ELSE pos)

ApplyFix(toks, fix) == ApplySorted(toks, SortEdits(fix), 0)

-----------------------------------------------------------------------------
(* react-no-redundant-usestate-types                                       *)
(* src/src/rules/react-no-redundant-usestate-types.ts, lines 1-296         *)

TypeKeywords == {"boolean", "string", "number", "null", "undefined", "T"}

\* The parser's node type of a keyword type token
KeywordType(tok) ==
    CASE tok = "boolean"   -> "TSBooleanKeyword"
      [] tok = "string"    -> "TSStringKeyword"
      [] tok = "number"    -> "TSNumberKeyword"
      [] tok = "null"      -> "TSNullKeyword"
      [] tok = "undefined" -> "TSUndefinedKeyword"
      [] OTHER             -> "TSTypeReference"

NoNode == [ok |-> FALSE, type |-> "", range |-> <<0, 0>>, value |-> "",
           name |-> "", elementType |-> "", types |-> <<>>, elements |-> 0]

TypeNode(ty, lo, hi, elem, members) ==
    [NoNode EXCEPT !.ok = TRUE, !.type = ty, !.range = <<lo, hi>>,
                   !.elementType = elem, !.types = members]

\* One member of a type: keyword, type reference, or T[]
ParseMember(piece, off) ==
    IF Len(piece) = 1 /\ piece[1] \in TypeKeywords
        THEN TypeNode(KeywordType(piece[1]), off, off + 1, "", <<>>)
    ELSE IF Len(piece) = 3 /\ piece[1] \in TypeKeywords
            /\ piece[2] = "[" /\ piece[3] = "]"
        THEN TypeNode("TSArrayType", off, off + 3, KeywordType(piece[1]), <<>>)
    ELSE NoNode

\* Offsets of the pieces of a separated list starting at offset off
RECURSIVE PieceOffsets(_, _)
PieceOffsets(pieces, off) ==
    IF pieces = <<>> THEN <<>>
    ELSE <<off>> \o PieceOffsets(Tail(pieces), off + Len(Head(pieces)) + 1)

\* A type argument: one member, or a union of members separated by "|"
ParseType(toks, off) ==
    LET pieces == Split(toks, "|")
        offs == PieceOffsets(pieces, off)
        members == [i \in 1..Len(pieces) |-> ParseMember(pieces[i], offs[i])]
    IN  IF \E i \in 1..Len(members) : ~members[i].ok THEN NoNode
        ELSE IF Len(members) = 1 THEN members[1]
        ELSE TypeNode("TSUnionType", off, off + Len(toks), "", members)

ArgAtoms == {"undefined", "null", "false", "0", "\"\"", "x"}

ExprNode(ty, lo, hi, val, nm, n) ==
    [NoNode EXCEPT !.ok = TRUE, !.type = ty, !.range = <<lo, hi>>,
                   !.value = val, !.name = nm, !.elements = n]

\* One call argument; parentheses around an expression are not part of its node
RECURSIVE ParseArg(_, _)
ParseArg(piece, off) ==
    IF Len(piece) >= 3 /\ piece[1] = "(" /\ piece[Len(piece)] = ")"
        THEN ParseArg(SubSeq(piece, 2, Len(piece) - 1), off + 1)
    ELSE IF Len(piece) = 1 /\ piece[1] \in ArgAtoms
        THEN CASE piece[1] = "undefined" -> ExprNode("Identifier", off, off + 1, "", "undefined", 0)
               [] piece[1] = "x"         -> ExprNode("Identifier", off, off + 1, "", "x", 0)
               [] piece[1] = "null"      -> ExprNode("Literal", off, off + 1, "null", "", 0)
               [] piece[1] = "false"     -> ExprNode("Literal", off, off + 1, "boolean", "", 0)
               [] piece[1] = "0"         -> ExprNode("Literal", off, off + 1, "number", "", 0)
               [] OTHER                  -> ExprNode("Literal", off, off + 1, "string", "", 0)
    ELSE IF piece = <<"[", "]">>
        THEN ExprNode("ArrayExpression", off, off + 2, "", "", 0)
    ELSE IF Len(piece) = 3 /\ piece[1] = "[" /\ piece[2] \in ArgAtoms /\ piece[3] = "]"
        THEN ExprNode("ArrayExpression", off, off + 3, "", "", 1)
    ELSE NoNode

\* The argument list between the call's parentheses (a trailing comma is allowed)
ParseArgs(inner, off) ==
    LET raw == Split(inner, ",")
        pieces == IF Len(raw) >= 2 /\ raw[Len(raw)] = <<>>
                  THEN SubSeq(raw, 1, Len(raw) - 1) ELSE raw
        offs == PieceOffsets(pieces, off)
        nodes == [i \in 1..Len(pieces) |-> ParseArg(pieces[i], offs[i])]
    IN  IF inner = <<>> THEN [ok |-> TRUE, args |-> <<>>]
        ELSE [ok |-> \A i \in 1..Len(nodes) : nodes[i].ok, args |-> nodes]

FirstIndex(toks, t) ==
    IF t \in Range(toks) THEN CHOOSE i \in 1..Len(toks) :
                                  toks[i] = t /\ \A j \in 1..(i - 1) : toks[j] # t
    ELSE 0

NoCall == [ok |-> FALSE, callee |-> "", hasTypeArguments |-> FALSE,
           typeArguments |-> <<0, 0>>, params |-> <<>>, arguments |-> <<>>]

\* callee [ "<" type ">" ] "(" arguments ")"
ParseCall(toks) ==
    IF Len(toks) < 3 THEN NoCall
    ELSE
    LET gt == FirstIndex(toks, ">")
        hasT == toks[2] = "<"
        open == IF hasT THEN gt + 1 ELSE 2
        ty == IF hasT /\ gt > 3 THEN ParseType(SubSeq(toks, 3, gt - 1), 2) ELSE NoNode
        wellFormed == /\ toks[1] \in {"useState", "useRef"}
                      /\ hasT => (gt > 3 /\ ty.ok)
                      /\ open < Len(toks)
                      /\ toks[open] = "("
                      /\ toks[Len(toks)] = ")"
        args == IF wellFormed
                THEN ParseArgs(Slice(toks, open + 1, Len(toks) - 1), open)
                ELSE [ok |-> FALSE, args |-> <<>>]
    IN  IF ~(wellFormed /\ args.ok) THEN NoCall
        ELSE [ok |-> TRUE, callee |-> toks[1], hasTypeArguments |-> hasT,
              typeArguments |-> IF hasT THEN <<1, gt>> ELSE <<0, 0>>,
              params |-> IF hasT THEN <<ty>> ELSE <<>>,
              arguments |-> args.args]

\* sourceCode.getText(node)
getText(toks, node) == Slice(toks, node.range[1] + 1, node.range[2])

\* sourceCode.getTokenBefore / getTokenAfter of a range: the token's own range
getTokenBefore(range) == <<range[1] - 1, range[1]>>

getTokenAfter(range) == <<range[2], range[2] + 1>>

Diag(id, anchor, data, hasFix, fix) ==
    [messageId |-> id, node |-> anchor, data |-> data, hasFix |-> hasFix, fix |-> fix]

\* Lines 59-111: is the type argument redundant for the first argument?
isRedundant(toks, typeParam, argument) ==
    LET typeText == getText(toks, typeParam) IN
    IF typeText = <<"boolean">> /\ argument.type = "Literal"
        THEN argument.value = "boolean"
    ELSE IF typeText = <<"string">> /\ argument.type = "Literal" /\ argument.value = "string"
        THEN TRUE
    ELSE IF typeText = <<"number">> /\ argument.type = "Literal" /\ argument.value = "number"
        THEN TRUE
    ELSE IF typeText = <<"null">> /\ argument.type = "Literal" /\ argument.value = "null"
        THEN TRUE
    ELSE IF typeText = <<"undefined">> /\ argument.type = "Identifier"
            /\ argument.name = "undefined"
        THEN TRUE
    ELSE IF typeParam.type = "TSArrayType" /\ argument.type = "ArrayExpression"
            /\ argument.elements = 0
        THEN typeParam.elementType \in {"TSStringKeyword", "TSNumberKeyword", "TSBooleanKeyword"}
    ELSE FALSE

\* Lines 120-132 and 276-288: remove the type-argument clause
RemoveTypeArgumentsFix(call) ==
    <<Edit(getTokenBefore(call.typeArguments)[2], getTokenAfter(call.typeArguments)[1], <<>>)>>

\* unionType.types.find(t => t.type !== keyword): index of the first such member, 0 if none
FindBaseType(unionType, keyword) ==
    IF \E i \in 1..Len(unionType.types) : unionType.types[i].type # keyword
    THEN CHOOSE i \in 1..Len(unionType.types) :
            /\ unionType.types[i].type # keyword
            /\ \A j \in 1..(i - 1) : unionType.types[j].type = keyword
    ELSE 0

\* The Fix of the two union cases, were the open parenthesis looked up after
\* the type parameter's first token instead of after the type arguments
NarrowUnionFix_ParenFromTypeParam(call, typeParam, argument, baseTypeText) ==
    <<Edit(typeParam.range[1], typeParam.range[2], baseTypeText)>>
    \o (IF Len(call.arguments) = 1
        THEN LET openParen == getTokenAfter(<<typeParam.range[1], typeParam.range[1] + 1>>)
                 closeParen == getTokenAfter(argument.range)
             IN  <<Edit(openParen[1], closeParen[2], <<"(", ")">>)>>
        ELSE <<>>)

\* Lines 167-195 and 230-258: narrow the type argument and empty the argument list
NarrowUnionFix(call, typeParam, argument, baseTypeText) ==
    <<Edit(typeParam.range[1], typeParam.range[2], baseTypeText)>>
    \o (IF Len(call.arguments) = 1
        THEN LET openParen == getTokenAfter(call.typeArguments)
                 closeParen == getTokenAfter(argument.range)
             IN  <<Edit(openParen[1], closeParen[2], <<"(", ")">>)>>
        ELSE <<>>)

\* Lines 140-199 (keyword TSUndefinedKeyword, messageId redundantUndefinedUnion) and
\* lines 203-262 (keyword TSNullKeyword, messageId preferUndefinedOverNull)
UnionCase(toks, call, typeParam, argument, keyword, messageId) ==
    LET hasKeyword == \E i \in 1..Len(typeParam.types) : typeParam.types[i].type = keyword
        b == FindBaseType(typeParam, keyword)
    IN  IF hasKeyword /\ Len(typeParam.types) = 2 /\ b # 0
        THEN LET baseTypeText == getText(toks, typeParam.types[b])
             IN  <<Diag(messageId, "call", baseTypeText, TRUE,
                        NarrowUnionFix(call, typeParam, argument, baseTypeText))>>
        ELSE <<>>

\* Lines 39-291: the CallExpression visitor; the diagnostics it reports, in order
UseStateCallExpression(toks) ==
    LET call == ParseCall(toks) IN
    IF ~call.ok \/ call.callee # "useState" THEN <<>>
    ELSE IF ~call.hasTypeArguments \/ Len(call.params) = 0 THEN <<>>
    ELSE
    LET typeParam == call.params[1]
        hasArgument == Len(call.arguments) > 0
        argument == IF hasArgument THEN call.arguments[1] ELSE NoNode
    IN  IF hasArgument /\ isRedundant(toks, typeParam, argument)
        THEN <<Diag("redundantSimpleType", "typeArguments", getText(toks, typeParam),
                    TRUE, RemoveTypeArgumentsFix(call))>>
        ELSE
            (IF typeParam.type = "TSUnionType" /\ hasArgument
                /\ argument.type = "Identifier" /\ argument.name = "undefined"
             THEN UnionCase(toks, call, typeParam, argument,
                            "TSUndefinedKeyword", "redundantUndefinedUnion")
             ELSE <<>>)
         \o (IF typeParam.type = "TSUnionType" /\ hasArgument
                /\ argument.type = "Literal" /\ argument.value = "null"
             THEN UnionCase(toks, call, typeParam, argument,
                            "TSNullKeyword", "preferUndefinedOverNull")
             ELSE <<>>)
         \o (IF typeParam.type = "TSUndefinedKeyword" /\ Len(call.arguments) = 0
             THEN <<Diag("redundantSimpleType", "typeArguments", <<"undefined">>,
                         TRUE, RemoveTypeArgumentsFix(call))>>
             ELSE <<>>)

-----------------------------------------------------------------------------
(* supabase-no-insert-with-id                                              *)
(* src/src/rules/supabase-no-insert-with-id.ts, lines 1-86                 *)

\* A property of an object literal. key.name is "" where the key node has no
\* name field (a Literal key, a SpreadElement)
Property(keyType, name, value, computed) ==
    [type |-> "Property",
     key |-> [type |-> keyType, name |-> name, value |-> value],
     computed |-> computed]

SpreadElement ==
    [type |-> "SpreadElement", key |-> [type |-> "", name |-> "", value |-> ""],
     computed |-> FALSE]

PropertyKinds ==
    {Property("Identifier", "id", "", FALSE),      \* { id: 1 }
     Property("Identifier", "name", "", FALSE),    \* { name: "y" }
     Property("Literal", "", "id", FALSE),         \* { "id": 1 }
     Property("Identifier", "id", "", TRUE),       \* { [id]: 1 }
     SpreadElement}                                \* { ...row }

ObjectExpression(props) == [type |-> "ObjectExpression", properties |-> props, elements |-> <<>>]

ArrayExpression(elems) == [type |-> "ArrayExpression", properties |-> <<>>, elements |-> elems]

\* An identifier argument, a spread element of an array, a hole of an array
OtherExpression(ty) == [type |-> ty, properties |-> <<>>, elements |-> <<>>]

NoInsertCall ==
    [calleeType |-> "", propertyType |-> "", propertyName |-> "", arguments |-> <<>>]

\* Lines 42-46 and 63-68: objectExpr.properties.some(prop => prop.type === "Property"
\* && prop.key.name === "id")
hasId(objectExpr) ==
    \E i \in 1..Len(objectExpr.properties) :
        /\ objectExpr.properties[i].type = "Property"
        /\ objectExpr.properties[i].key.name = "id"

\* A variant of the batch loop that stops at the first offending element, as a
\* some() or a for loop with a break would
RECURSIVE InsertArrayReports_StopAtFirst(_, _)
InsertArrayReports_StopAtFirst(elements, i) ==
    IF i > Len(elements) THEN <<>>
    ELSE IF elements[i].type = "ObjectExpression" /\ hasId(elements[i])
         THEN <<Diag("noInsertWithId", <<1, i>>, <<>>, FALSE, <<>>)>>
         ELSE InsertArrayReports_StopAtFirst(elements, i + 1)

\* Lines 60-77: the forEach over the elements of a batch insert; the anchor of a
\* report is the path <<1, i>> of element i of the first argument
RECURSIVE InsertArrayReports(_, _)
InsertArrayReports(elements, i) ==
    IF i > Len(elements) THEN <<>>
    ELSE (IF elements[i].type = "ObjectExpression" /\ hasId(elements[i])
          THEN <<Diag("noInsertWithId", <<1, i>>, <<>>, FALSE, <<>>)>>
          ELSE <<>>)
         \o InsertArrayReports(elements, i + 1)

\* Lines 28-81: the CallExpression visitor; the diagnostics it reports, in order
InsertCallExpression(node) ==
    IF /\ node.calleeType = "MemberExpression"
       /\ node.propertyType = "Identifier"
       /\ node.propertyName = "insert"
       /\ Len(node.arguments) > 0
    THEN LET arg == node.arguments[1]
         IN  (IF arg.type = "ObjectExpression" /\ hasId(arg)
              THEN <<Diag("noInsertWithId", <<1>>, <<>>, FALSE, <<>>)>>
              ELSE <<>>)
          \o (IF arg.type = "ArrayExpression" /\ Len(arg.elements) > 0
              THEN InsertArrayReports(arg.elements, 1)
              ELSE <<>>)
    ELSE <<>>

(* The inputs: calls with up to MaxInsertArgs arguments *)

MaxProps == 2
MaxElems == 3
MaxInsertArgs == 2

InsertObjects == {ObjectExpression(ps) : ps \in SeqsOf(PropertyKinds, 0, MaxProps)}

\* Elements of a batch: objects of at most one property, holes, spreads, variables
InsertElements ==
    {ObjectExpression(ps) : ps \in SeqsOf(PropertyKinds, 0, 1)}
    \cup {OtherExpression("Hole"), OtherExpression("Identifier")}

InsertFirstArgs ==
    InsertObjects \cup {ArrayExpression(es) : es \in SeqsOf(InsertElements, 0, MaxElems)}
    \cup {OtherExpression("Identifier")}

\* Later arguments: an offending object, an offending batch, a variable
InsertLaterArgs ==
    {ObjectExpression(<<Property("Identifier", "id", "", FALSE)>>),
     ArrayExpression(<<ObjectExpression(<<Property("Identifier", "id", "", FALSE)>>)>>),
     OtherExpression("Identifier")}

InsertArgLists ==
    {<<>>} \cup
    {<<a>> \o rest : a \in InsertFirstArgs, rest \in SeqsOf(InsertLaterArgs, 0, MaxInsertArgs - 1)}

\* table.insert(..), table.upsert(..), table["insert"](..), insert(..)
InsertCallees ==
    {[calleeType |-> "MemberExpression", propertyType |-> "Identifier", propertyName |-> "insert"],
     [calleeType |-> "MemberExpression", propertyType |-> "Identifier", propertyName |-> "upsert"],
     [calleeType |-> "MemberExpression", propertyType |-> "Literal", propertyName |-> ""],
     [calleeType |-> "Identifier", propertyType |-> "", propertyName |-> ""]}

InsertCalls ==
    {[calleeType |-> c.calleeType, propertyType |-> c.propertyType,
      propertyName |-> c.propertyName, arguments |-> as] :
        c \in InsertCallees, as \in InsertArgLists}

-----------------------------------------------------------------------------
(* Character strings used by the page rules (file names, identifiers)      *)

sPage == <<"P", "a", "g", "e">>
sHomePage == <<"H", "o", "m", "e", "P", "a", "g", "e">>
sHome == <<"H", "o", "m", "e">>
sHelper == <<"h", "e", "l", "p", "e", "r">>
sNextPage == <<"N", "e", "x", "t", "P", "a", "g", "e">>
sProps == <<"P", "r", "o", "p", "s">>
sFC == <<"F", "C">>
sUseState == <<"u", "s", "e", "S", "t", "a", "t", "e">>
sNext == <<"n", "e", "x", "t">>
sReact == <<"r", "e", "a", "c", "t">>
sPropsArg == <<"p", "r", "o", "p", "s">>
sApp == <<"a", "p", "p">>
sSrc == <<"s", "r", "c">>
sDefaultPage == <<"D", "e", "f", "a", "u", "l", "t", "P", "a", "g", "e">>
sPageTsx == <<"p", "a", "g", "e", ".", "t", "s", "x">>
sLayoutTsx == <<"l", "a", "y", "o", "u", "t", ".", "t", "s", "x">>
sSlashPageTsx == <<"/", "p", "a", "g", "e", ".", "t", "s", "x">>
sProj == <<"p", "r", "o", "j">>
sBlogPosts == <<"b", "l", "o", "g", "-", "p", "o", "s", "t", "s">>
sMarketing == <<"(", "m", "a", "r", "k", "e", "t", "i", "n", "g", ")">>
sOldPath == <<"o", "l", "d", "-", "p", "a", "t", "h">>
sSlug == <<"[", "s", "l", "u", "g", "]">>
sDash == <<"-">>
sApplication == <<"a", "p", "p", "l", "i", "c", "a", "t", "i", "o", "n">>
sSrcApp == <<"s", "r", "c", "/", "a", "p", "p">>

sLogin == <<"/", "l", "o", "g", "i", "n">>
sUsers == <<"/", "u", "s", "e", "r", "s", "/">>
sId == <<"i", "d">>
sRedirect == <<"r", "e", "d", "i", "r", "e", "c", "t">>
sLog == <<"l", "o", "g">>
sUrl == <<"u", "r", "l">>

\* String.prototype.toUpperCase on one character
ToUpper(c) ==
    CASE
         c = "a" -> "A"
      [] c = "b" -> "B"
      [] c = "c" -> "C"
      [] c = "d" -> "D"
      [] c = "e" -> "E"
      [] c = "f" -> "F"
      [] c = "g" -> "G"
      [] c = "h" -> "H"
      [] c = "i" -> "I"
      [] c = "j" -> "J"
      [] c = "k" -> "K"
      [] c = "l" -> "L"
      [] c = "m" -> "M"
      [] c = "n" -> "N"
      [] c = "o" -> "O"
      [] c = "p" -> "P"
      [] c = "q" -> "Q"
      [] c = "r" -> "R"
      [] c = "s" -> "S"
      [] c = "t" -> "T"
      [] c = "u" -> "U"
      [] c = "v" -> "V"
      [] c = "w" -> "W"
      [] c = "x" -> "X"
      [] c = "y" -> "Y"
      [] c = "z" -> "Z"
      [] OTHER -> c

\* p.charAt(0).toUpperCase() + p.slice(1)
Capitalize(p) == IF p = <<>> THEN <<>> ELSE <<ToUpper(p[1])>> \o Tail(p)

\* part.split("-").map(capitalize).join("") + "Page"
PascalPage(part) ==
    LET segments == Split(part, "-")
        capitalized == [i \in 1..Len(segments) |-> Capitalize(segments[i])]
    IN  Flatten(capitalized) \o sPage

\* nextjs-page-pattern, generatePageName, the loop of lines 75-90: pathParts[i],
\* i counted from 0 in the source, is parts[i + 1] here
RECURSIVE generatePageNameLoop(_, _)
generatePageNameLoop(pathParts, i) ==
    IF i < 0 THEN sDefaultPage
    ELSE LET part == pathParts[i + 1]
         IN  IF part # <<>> /\ ~StartsWith(part, <<"(">>) /\ part # sApp /\ part # sSrc
             THEN PascalPage(part)
             ELSE generatePageNameLoop(pathParts, i - 1)

\* nextjs-page-pattern, generatePageName (lines 68-101)
generatePageName(filename) ==
    LET pathParts == Split(filename, "/")
        hasParent == Len(pathParts) >= 2
        parentDir == IF hasParent THEN pathParts[Len(pathParts) - 1] ELSE <<>>
    IN  IF ~hasParent \/ parentDir = <<>> \/ parentDir = sApp
           \/ StartsWith(parentDir, <<"(">>)
        THEN generatePageNameLoop(pathParts, Len(pathParts) - 3)
        ELSE PascalPage(parentDir)

\* A file name from its directory segments and its base name
FileName(dirs, base) == Flatten([i \in 1..Len(dirs) |-> <<"/">> \o dirs[i]]) \o <<"/">> \o base

sTsx == <<".", "t", "s", "x">>

\* What create() of the two page rules would test if every .tsx file were linted
IsPageFile_AnyTsx(filename) == EndsWith(filename, sTsx)

\* Lines 57 / 33 of the two page rules: only page.tsx files are linted
IsPageFile(filename) == EndsWith(filename, sSlashPageTsx)

-----------------------------------------------------------------------------
(* nextjs-page-pattern: the source text and the parser's tree              *)
(* src/unnamed/part_001                                                    *)

\* A file is a sequence of tokens; token i occupies the range [i - 1, i). A
\* token has a kind and, for identifiers and string literals, its characters.
\* "body" stands for a block `{ ... }`, "expr" for an expression that is no
\* function.
Tok(k) == [k |-> k, s |-> <<>>]

Id(chars) == [k |-> "id", s |-> chars]

StringToken(chars) == [k |-> "str", s |-> chars]

\* The kind of the token at index i, "eof" past the end
At(toks, i) == IF i >= 1 /\ i <= Len(toks) THEN toks[i].k ELSE "eof"

\* A node of the tree. Every node carries every field; a field a node type does
\* not have holds the value below. Ranges are <<start, end>>.
NoPageNode ==
    [type |-> "", range |-> <<0, 0>>,
     source |-> <<>>, specifierType |-> "", imported |-> <<>>,
     declarationType |-> "", declarationRange |-> <<0, 0>>,
     hasId |-> FALSE, name |-> <<>>, idRange |-> <<0, 0>>,
     hasTypeAnnotation |-> FALSE, typeAnnotationRange |-> <<0, 0>>,
     kind |-> "", parentType |-> "Program",
     hasInit |-> FALSE, initType |-> "", initRange |-> <<0, 0>>,
     async |-> FALSE, params |-> <<>>, bodyRange |-> <<0, 0>>]

\* A type is `Name` or `Name<Arg>`: the index of its last token
TypeEnd(toks, i) == IF At(toks, i + 1) = "<" THEN i + 3 ELSE i

\* The one parameter at index p, whose last token is at index last. A
\* parameter's range includes its type annotation, as the parser reports it.
Parameter(p, last, hasType) ==
    [params |-> <<[range |-> <<p - 1, last>>,
                  hasTypeAnnotation |-> hasType,
                  typeAnnotationRange |-> IF hasType THEN <<p, last>> ELSE <<0, 0>>]>>,
     close |-> last + 1]

\* A parameter list starting at the index of its "(": zero or one parameter
\* `name` or `name: Type`; close is the index of its ")"
ParseParams(toks, open) ==
    IF At(toks, open + 1) = ")" THEN [params |-> <<>>, close |-> open + 1]
    ELSE IF At(toks, open + 2) = ":"
        THEN Parameter(open + 1, TypeEnd(toks, open + 3), TRUE)
    ELSE Parameter(open + 1, open + 1, FALSE)

\* A function with parameter list ps whose body is the token skip after the ")"
FunctionNode(type, isAsync, named, name, ps, skip) ==
    [type |-> type, async |-> isAsync, hasId |-> named, name |-> name,
     params |-> ps.params,
     bodyRange |-> <<ps.close + skip - 1, ps.close + skip>>,
     last |-> ps.close + skip]

\* function [name] ( params ) body, or ( params ) => body, starting at index f;
\* anything else is some other expression of one token
ParseFunctionAt(toks, isAsync, f) ==
    IF At(toks, f) = "function"
    THEN IF At(toks, f + 1) = "id"
         THEN FunctionNode("Function", isAsync, TRUE, toks[f + 1].s, ParseParams(toks, f + 2), 1)
         ELSE FunctionNode("Function", isAsync, FALSE, <<>>, ParseParams(toks, f + 1), 1)
    ELSE IF At(toks, f) = "("
        THEN FunctionNode("ArrowFunctionExpression", isAsync, FALSE, <<>>,
                          ParseParams(toks, f), 2)
    ELSE [type |-> "CallExpression", async |-> FALSE, hasId |-> FALSE, name |-> <<>>,
          params |-> <<>>, bodyRange |-> <<0, 0>>, last |-> f]

\* [async] followed by a function
ParseFunction(toks, i) ==
    IF At(toks, i) = "async"
    THEN ParseFunctionAt(toks, TRUE, i + 1)
    ELSE ParseFunctionAt(toks, FALSE, i)

ImportNode(toks, lo, named, nameAt, sourceAt) ==
    [NoPageNode EXCEPT
        !.type = "ImportDeclaration",
        !.range = <<lo - 1, sourceAt + 1>>,
        !.source = toks[sourceAt].s,
        !.specifierType = IF named THEN "ImportSpecifier" ELSE "ImportDefaultSpecifier",
        !.imported = toks[nameAt].s]

\* { Name } from "source";   or   Name from "source";   starting at index p
ParseSpecifiers(toks, lo, p) ==
    IF At(toks, p) = "{"
    THEN ImportNode(toks, lo, TRUE, p + 1, p + 4)
    ELSE ImportNode(toks, lo, FALSE, p, p + 2)

\* import [type] { Name } from "source";   or   import Name from "source";
ParseImport(toks, lo) ==
    IF At(toks, lo + 1) = "type"
    THEN ParseSpecifiers(toks, lo, lo + 2)
    ELSE ParseSpecifiers(toks, lo, lo + 1)

DefaultFunctionNode(lo, f) ==
    [NoPageNode EXCEPT
        !.type = "ExportDefaultDeclaration",
        !.range = <<lo - 1, f.last>>,
        !.declarationType = IF f.type = "Function" THEN "FunctionDeclaration" ELSE f.type,
        !.declarationRange = <<lo + 1, f.last>>,
        !.hasId = f.hasId, !.name = f.name, !.async = f.async,
        !.params = f.params, !.bodyRange = f.bodyRange]

\* export default Name;   or   export default [async] function [Name](params) body
ParseExportDefault(toks, lo) ==
    IF At(toks, lo + 2) = "id"
    THEN [NoPageNode EXCEPT
            !.type = "ExportDefaultDeclaration",
            !.range = <<lo - 1, lo + 3>>,
            !.declarationType = "Identifier",
            !.declarationRange = <<lo + 1, lo + 2>>,
            !.name = toks[lo + 2].s]
    ELSE DefaultFunctionNode(lo, ParseFunction(toks, lo + 2))

\* The declaration whose kind is at index k and whose identifier, with its type
\* annotation, ends at index idLast; f is its initializer, last its ";"
DeclarationNode(toks, lo, k, idLast, hasInit, f, last) ==
    [NoPageNode EXCEPT
        !.type = IF k > lo THEN "ExportNamedDeclaration" ELSE "VariableDeclaration",
        !.range = <<lo - 1, last>>,
        !.declarationType = IF k > lo THEN "VariableDeclaration" ELSE "",
        !.declarationRange = <<k - 1, last>>,
        !.kind = toks[k].k,
        !.name = toks[k + 1].s,
        !.idRange = <<k, idLast>>,
        !.hasTypeAnnotation = idLast > k + 1,
        !.typeAnnotationRange = IF idLast > k + 1 THEN <<k + 1, idLast>> ELSE <<0, 0>>,
        !.hasInit = hasInit,
        !.initType = IF ~hasInit THEN ""
                     ELSE IF f.type = "Function" THEN "FunctionExpression" ELSE f.type,
        !.initRange = IF hasInit THEN <<idLast + 1, f.last>> ELSE <<0, 0>>,
        !.async = hasInit /\ f.async,
        !.params = IF hasInit THEN f.params ELSE <<>>,
        !.bodyRange = IF hasInit THEN f.bodyRange ELSE <<0, 0>>]

ParseInitializer(toks, lo, k, idLast, f) ==
    IF At(toks, idLast + 1) = "="
    THEN DeclarationNode(toks, lo, k, idLast, TRUE, f, f.last + 1)
    ELSE DeclarationNode(toks, lo, k, idLast, FALSE, f, idLast + 1)

ParseDeclarator(toks, lo, k, idLast) ==
    ParseInitializer(toks, lo, k, idLast, ParseFunction(toks, idLast + 2))

ParseDeclaration(toks, lo, k) ==
    IF At(toks, k + 2) = ":"
    THEN ParseDeclarator(toks, lo, k, TypeEnd(toks, k + 3))
    ELSE ParseDeclarator(toks, lo, k, k + 1)

\* [export] (const | let | var) Name [: Type] [= init];
\* The range of the declared identifier includes its type annotation.
ParseVariableDeclaration(toks, lo) ==
    IF At(toks, lo) = "export"
    THEN ParseDeclaration(toks, lo, lo + 1)
    ELSE ParseDeclaration(toks, lo, lo)

DeclarationKinds == {"const", "let", "var"}

\* The top-level statement that starts at token lo
ParseStatement(toks, lo) ==
    IF At(toks, lo) = "import" THEN ParseImport(toks, lo)
    ELSE IF At(toks, lo) = "export" /\ At(toks, lo + 1) = "default"
        THEN ParseExportDefault(toks, lo)
    ELSE IF \/ At(toks, lo) \in DeclarationKinds
            \/ At(toks, lo) = "export" /\ At(toks, lo + 1) \in DeclarationKinds
        THEN ParseVariableDeclaration(toks, lo)
    ELSE [NoPageNode EXCEPT !.type = "ExpressionStatement", !.range = <<lo - 1, Len(toks)>>]

\* sourceCode.ast.body of a text
RECURSIVE ParseBody(_, _)
ParseRest(toks, node) == <<node>> \o ParseBody(toks, node.range[2] + 1)

ParseBody(toks, lo) ==
    IF lo > Len(toks) THEN <<>> ELSE ParseRest(toks, ParseStatement(toks, lo))

ProgramBody(toks) == ParseBody(toks, 1)

\* The declaration of an ExportNamedDeclaration: the child node, with its parent
Declaration(node) ==
    [node EXCEPT !.type = "VariableDeclaration", !.range = node.declarationRange,
                 !.declarationType = "", !.parentType = "ExportNamedDeclaration"]

\* The nodes of a statement that have a visitor, in the order the host visits
\* them: a parent before its child
RECURSIVE PageVisits(_)
PageVisits(body) ==
    IF body = <<>> THEN <<>>
    ELSE (IF Head(body).type = "ExportNamedDeclaration"
              THEN <<Head(body), Declaration(Head(body))>>
          ELSE IF Head(body).type \in {"ImportDeclaration", "ExportDefaultDeclaration",
                                      "VariableDeclaration"}
              THEN <<Head(body)>>
          ELSE <<>>)
         \o PageVisits(Tail(body))

-----------------------------------------------------------------------------
(* nextjs-page-pattern: the rule                                           *)

\* Lines 60-61: hasNextPageImport and defaultExport; NoPageNode stands for null
PageState(hasNextPageImport, defaultExport) ==
    [hasNextPageImport |-> hasNextPageImport, defaultExport |-> defaultExport]

\* 'import type { NextPage } from "next";\n'
NextPageImportText ==
    <<Tok("import"), Tok("type"), Tok("{"), Id(sNextPage), Tok("}"), Tok("from"),
      StringToken(sNext), Tok(";")>>

\* `export default ${name};`
ExportDefaultText(name) == <<Tok("export"), Tok("default"), Id(name), Tok(";")>>

\* Lines 139-160 and 349-373: add the NextPage import if missing, before the
\* first import of the file or at offset 0
AddNextPageImport(st, body) ==
    IF st.hasNextPageImport THEN <<>>
    ELSE LET imports == {i \in 1..Len(body) : body[i].type = "ImportDeclaration"}
         IN  IF imports # {}
             THEN LET firstImport == body[CHOOSE i \in imports : \A j \in imports : i <= j]
                  IN  <<Edit(firstImport.range[1], firstImport.range[1], NextPageImportText)>>
             ELSE <<Edit(0, 0, NextPageImportText)>>

\* Lines 170-183 and 327-341: the text of the first parameter's type annotation
\* without its leading colon, "" where there is none
PropsType(toks, params) ==
    IF Len(params) > 0 /\ params[1].hasTypeAnnotation
    THEN LET paramType == Slice(toks, params[1].typeAnnotationRange[1] + 1,
                                params[1].typeAnnotationRange[2])
         IN  IF paramType # <<>> /\ paramType[1].k = ":" THEN Tail(paramType) ELSE paramType
    ELSE <<>>

\* funcNode.params.map((p) => sourceCode.getText(p)).join(", ")
ParamsText(toks, params) ==
    Join([i \in 1..Len(params) |-> getText(toks, params[i])], <<Tok(",")>>)

\* Lines 104-116: the ImportDeclaration visitor
PageImportDeclaration(st, node) ==
    IF /\ node.source = sNext
       /\ node.specifierType = "ImportSpecifier"
       /\ node.imported = sNextPage
    THEN [st EXCEPT !.hasNextPageImport = TRUE]
    ELSE st

\* Lines 135-198: the Fix of noExportDefaultFunction, computed when the report is
\* made, with st the rule's variables at that moment
ExportDefaultFunctionFix(st, node, toks, body, suggestedName) ==
    LET propsType == PropsType(toks, node.params)
        newComponent ==
            <<Tok("const"), Id(suggestedName), Tok(":"), Id(sNextPage)>>
            \o (IF propsType # <<>> THEN <<Tok("<")>> \o propsType \o <<Tok(">")>> ELSE <<>>)
            \o <<Tok("=")>>
            \o (IF node.async THEN <<Tok("async")>> ELSE <<>>)
            \o <<Tok("(")>> \o ParamsText(toks, node.params) \o <<Tok(")"), Tok("=>")>>
            \o Slice(toks, node.bodyRange[1] + 1, node.bodyRange[2])
            \o <<Tok(";")>> \o ExportDefaultText(suggestedName)
    IN  AddNextPageImport(st, body)
        \o <<Edit(node.range[1], node.range[2], newComponent)>>

\* Lines 118-205: the ExportDefaultDeclaration visitor: the rule's variables after
\* it, and the diagnostics it reports
PageExportDefaultDeclaration(st, node, toks, body, filename) ==
    LET after == [st EXCEPT !.defaultExport = node]
        componentName == IF node.hasId THEN node.name ELSE sPage
        suggestedName == IF componentName = sPage \/ ~EndsWith(componentName, sPage)
                         THEN generatePageName(filename)
                         ELSE componentName
    IN  [state |-> after,
         reports |->
            IF node.declarationType = "FunctionDeclaration"
            THEN <<Diag("noExportDefaultFunction", node.range, <<>>, TRUE,
                        ExportDefaultFunctionFix(after, node, toks, body, suggestedName))>>
            ELSE <<>>]

\* Lines 229-259: the Fix of noDirectExport
DirectExportFix(st, node, toks, body) ==
    LET lastNode == body[Len(body)]
    IN  <<Edit(node.range[1], node.range[2],
               Slice(toks, node.declarationRange[1] + 1, node.declarationRange[2]))>>
        \o (IF st.defaultExport = NoPageNode
            THEN <<Edit(lastNode.range[2], lastNode.range[2], ExportDefaultText(node.name))>>
            ELSE <<>>)

\* Lines 207-264: the ExportNamedDeclaration visitor; the diagnostics it reports
PageExportNamedDeclaration(st, node, toks, body) ==
    IF /\ node.declarationType = "VariableDeclaration"
       /\ node.hasInit
       /\ EndsWith(node.name, sPage)
       /\ node.initType \in {"ArrowFunctionExpression", "FunctionExpression"}
    THEN <<Diag("noDirectExport", node.range, <<>>, TRUE, DirectExportFix(st, node, toks, body))>>
    ELSE <<>>

\* Lines 285-314: the Fix of badComponentName
ComponentNameFix(st, node, suggestedName) ==
    <<Edit(node.idRange[1], node.idRange[2], <<Id(suggestedName)>>)>>
    \o (IF /\ st.defaultExport # NoPageNode
           /\ st.defaultExport.declarationType = "Identifier"
           /\ st.defaultExport.name = node.name
        THEN <<Edit(st.defaultExport.declarationRange[1], st.defaultExport.declarationRange[2],
                    <<Id(suggestedName)>>)>>
        ELSE <<>>)

\* Lines 346-401: the Fix of missingNextPageType
NextPageTypeFix(st, node, body, propsType) ==
    LET typeAnnotation ==
            <<Tok(":"), Id(sNextPage)>>
            \o (IF propsType # <<>> THEN <<Tok("<")>> \o propsType \o <<Tok(">")>> ELSE <<>>)
    IN  AddNextPageImport(st, body)
        \o (IF node.hasTypeAnnotation
            THEN <<Edit(node.typeAnnotationRange[1], node.typeAnnotationRange[2], typeAnnotation)>>
            ELSE <<Edit(node.idRange[2], node.idRange[2], typeAnnotation)>>)

\* The Fix of notArrowFunction, were the async flag of the function not read
ArrowFunctionFix_DropsAsync(node, toks) ==
    <<Edit(node.initRange[1], node.initRange[2],
           <<Tok("(")>> \o ParamsText(toks, node.params) \o <<Tok(")"), Tok("=>")>>
           \o Slice(toks, node.bodyRange[1] + 1, node.bodyRange[2]))>>

\* Lines 413-436: the Fix of notArrowFunction
ArrowFunctionFix(node, toks) ==
    <<Edit(node.initRange[1], node.initRange[2],
           (IF node.async THEN <<Tok("async")>> ELSE <<>>)
           \o <<Tok("(")>> \o ParamsText(toks, node.params) \o <<Tok(")"), Tok("=>")>>
           \o Slice(toks, node.bodyRange[1] + 1, node.bodyRange[2]))>>

\* Lines 458-464: the Fix of notConst: text.replace(/^(let|var)/, "const")
ConstFix(node, toks) ==
    LET text == getText(toks, node)
        newText == IF text # <<>> /\ text[1].k \in {"let", "var"}
                   THEN <<Tok("const")>> \o Tail(text)
                   ELSE text
    IN  <<Edit(node.range[1], node.range[2], newText)>>

\* sourceCode.getText(typeAnnotation).includes("NextPage")
MentionsNextPage(toks, range) ==
    \E i \in (range[1] + 1)..range[2] : Includes(toks[i].s, sNextPage)

\* Lines 268-443: the const branch of the VariableDeclaration visitor
PageConstDeclaration(st, node, toks, body, filename) ==
    IF node.hasInit /\ EndsWith(node.name, sPage)
    THEN (IF node.name = sPage
          THEN <<Diag("badComponentName", node.idRange, [name |-> node.name], TRUE,
                      ComponentNameFix(st, node, generatePageName(filename)))>>
          ELSE <<>>)
      \o (IF \/ ~node.hasTypeAnnotation
             \/ ~MentionsNextPage(toks, node.typeAnnotationRange)
          THEN LET propsType == IF node.initType = "ArrowFunctionExpression"
                                THEN PropsType(toks, node.params)
                                ELSE <<>>
               IN  <<Diag("missingNextPageType", node.idRange, <<>>, TRUE,
                          NextPageTypeFix(st, node, body, propsType))>>
          ELSE <<>>)
      \o (IF node.initType # "ArrowFunctionExpression"
          THEN IF node.initType = "FunctionExpression"
               THEN <<Diag("notArrowFunction", node.initRange, <<>>, TRUE,
                           ArrowFunctionFix(node, toks))>>
               ELSE <<Diag("notArrowFunction", node.initRange, <<>>, FALSE, <<>>)>>
          ELSE <<>>)
    ELSE <<>>

\* Lines 445-471: the let/var branch of the VariableDeclaration visitor
PageLetVarDeclaration(node, toks) ==
    IF node.hasInit /\ EndsWith(node.name, sPage)
    THEN <<Diag("notConst", node.range, <<>>, TRUE, ConstFix(node, toks))>>
    ELSE <<>>

\* Lines 266-472: the VariableDeclaration visitor; the diagnostics it reports
PageVariableDeclaration(st, node, toks, body, filename) ==
    IF node.parentType = "ExportNamedDeclaration" THEN <<>>
    ELSE IF node.kind = "const" THEN PageConstDeclaration(st, node, toks, body, filename)
    ELSE IF node.kind \in {"let", "var"} THEN PageLetVarDeclaration(node, toks)
    ELSE <<>>

\* The value of this rule's variables while another rule is modelled
PGIdle ==
    /\ pgFilename = <<>> /\ pgText = <<>> /\ pgActive = FALSE /\ pgRun = 0
    /\ pgState = PageState(FALSE, NoPageNode)
    /\ pgPending = <<>> /\ pgDiags = <<>> /\ pgPick = 0
    /\ pgFixed = <<>> /\ pgDiags2 = <<>>

-----------------------------------------------------------------------------
(* next-no-redirect-only-pages                                             *)
(* src/src/rules/next-no-redirect-only-pages.ts, lines 1-242               *)

\* string | null
Null == [isNull |-> TRUE, value |-> <<>>]

Str(v) == [isNull |-> FALSE, value |-> v]

\* JavaScript truthiness of a string | null: null and "" are falsy
Truthy(d) == ~d.isNull /\ d.value # <<>>

\* filename.match(/src\/app(.*)\/page\.tsx$/): the captured group of the leftmost
\* match, Null when there is none
MatchSrcApp(filename) ==
    LET n == Len(filename)
        starts == {i \in 0..(n - 16) : SubSeq(filename, i + 1, i + 7) = sSrcApp}
    IN  IF EndsWith(filename, sSlashPageTsx) /\ starts # {}
        THEN LET i == CHOOSE k \in starts : \A j \in starts : k <= j
             IN  Str(Slice(filename, i + 8, n - 9))
        ELSE Null

\* Index of the first occurrence of character c in s at or after position from, 0 if none
IndexFrom(s, c, from) ==
    IF \E i \in from..Len(s) : s[i] = c
    THEN CHOOSE i \in from..Len(s) : s[i] = c /\ \A j \in from..(i - 1) : s[j] # c
    ELSE 0

\* path.replace(/\/\([^)]+\)/g, "")
RECURSIVE RemoveRouteGroups(_)
RemoveRouteGroups(path) ==
    IF path = <<>> THEN <<>>
    ELSE LET close == IndexFrom(path, ")", 3)
         IN  IF Len(path) >= 4 /\ path[1] = "/" /\ path[2] = "(" /\ close >= 4
             THEN RemoveRouteGroups(Slice(path, close + 1, Len(path)))
             ELSE <<Head(path)>> \o RemoveRouteGroups(Tail(path))

\* path.replace(/\[([^\]]+)\]/g, ":$1")
RECURSIVE ReplaceDynamicSegments(_)
ReplaceDynamicSegments(path) ==
    IF path = <<>> THEN <<>>
    ELSE LET close == IndexFrom(path, "]", 2)
         IN  IF Len(path) >= 3 /\ path[1] = "[" /\ close >= 3
             THEN <<":">> \o SubSeq(path, 2, close - 1)
                    \o ReplaceDynamicSegments(Slice(path, close + 1, Len(path)))
             ELSE <<Head(path)>> \o ReplaceDynamicSegments(Tail(path))

\* Lines 45-62
getSourcePath(filename) ==
    LET match == MatchSrcApp(filename)
        path == RemoveRouteGroups(match.value)
    IN  IF match.isNull THEN Null
        ELSE IF path = <<>> THEN Str(<<"/">>)
        ELSE Str(ReplaceDynamicSegments(path))

(* Nodes of a page file, as far as the rule reads them *)

\* An expression of a template literal
TemplateExpr(ty, name, argumentType) == [type |-> ty, name |-> name, argumentType |-> argumentType]

\* A call argument
Argument(ty, valueType, value, quasis, expressions) ==
    [type |-> ty, valueType |-> valueType, value |-> value,
     quasis |-> quasis, expressions |-> expressions]

\* A CallExpression node
Call(calleeType, calleeName, args) ==
    [type |-> "CallExpression", calleeType |-> calleeType, calleeName |-> calleeName,
     arguments |-> args, name |-> <<>>, idType |-> "", hasInit |-> FALSE,
     initType |-> "", body |-> <<>>, bodyType |-> ""]

\* A VariableDeclarator node; bodyType and body describe init.body
Declarator(idType, name, hasInit, initType, bodyType, body) ==
    [type |-> "VariableDeclarator", calleeType |-> "", calleeName |-> <<>>,
     arguments |-> <<>>, name |-> name, idType |-> idType, hasInit |-> hasInit,
     initType |-> initType, body |-> body, bodyType |-> bodyType]

\* A statement of a block body; call is the call of an ExpressionStatement or of
\* a ReturnStatement's argument (<<>> when there is none)
Statement(ty, expressionType, call) ==
    [type |-> ty, expressionType |-> expressionType, call |-> call]

\* Lines 83-91: the statement is an expression statement calling redirect
IsRedirectStatement(stmt) ==
    /\ stmt.type = "ExpressionStatement"
    /\ stmt.expressionType = "CallExpression"
    /\ stmt.call[1].calleeType = "Identifier"
    /\ stmt.call[1].calleeName = sRedirect

\* Lines 67-112. bodyType is body.type ("" for a missing body); for a block, body
\* is its statements; for an expression body that is a call, body is <<the call>>
isOnlyRedirect(bodyType, body) ==
    IF bodyType = "" THEN FALSE
    ELSE IF bodyType = "BlockStatement"
        THEN LET statements == SelectSeq(body, LAMBDA stmt : stmt.type # "EmptyStatement")
             IN  IF Len(statements) = 0 THEN FALSE
                 ELSE IF Len(statements) > 2 THEN FALSE
                 ELSE \A i \in 1..Len(statements) :
                        \/ IsRedirectStatement(statements[i])
                        \/ statements[i].type = "VariableDeclaration"
                        \/ statements[i].type = "ReturnStatement"
    ELSE IF bodyType = "CallExpression"
        THEN body[1].calleeType = "Identifier" /\ body[1].calleeName = sRedirect
    ELSE FALSE

\* Lines 137-160: the loop over the quasis of a template literal
RECURSIVE extractTemplate(_, _, _)
extractTemplate(templateLit, i, result) ==
    IF i > Len(templateLit.quasis) THEN Str(result)
    ELSE LET r == result \o templateLit.quasis[i]
         IN  IF i <= Len(templateLit.expressions)
             THEN LET expr == templateLit.expressions[i]
                  IN  IF expr.type = "Identifier"
                          THEN extractTemplate(templateLit, i + 1, r \o <<":">> \o expr.name)
                      ELSE IF expr.type = "AwaitExpression"
                              /\ expr.argumentType = "CallExpression"
                          THEN extractTemplate(templateLit, i + 1, r \o <<":">> \o sId)
                      ELSE Null
             ELSE extractTemplate(templateLit, i + 1, r)

\* Lines 117-163
extractDestination(node) ==
    IF Len(node.arguments) = 0 THEN Null
    ELSE LET firstArg == node.arguments[1]
         IN  IF firstArg.type = "Literal" /\ firstArg.valueType = "string"
                 THEN Str(firstArg.value)
             ELSE IF firstArg.type = "TemplateLiteral"
                     /\ Len(firstArg.expressions) = 0 /\ Len(firstArg.quasis) = 1
                 THEN Str(firstArg.quasis[1])
             ELSE IF firstArg.type = "TemplateLiteral"
                 THEN extractTemplate(firstArg, 1, <<>>)
             ELSE Null

\* The rule's per-file state (lines 37-40)
RedirectState(has, dest, simple, node) ==
    [hasRedirectCall |-> has, redirectDestination |-> dest,
     isSimpleRedirect |-> simple, redirectNode |-> node]

\* Lines 166-187: the VariableDeclarator visitor
RedirectVariableDeclarator(st, node) ==
    IF /\ node.idType = "Identifier"
       /\ EndsWith(node.name, sPage)
       /\ node.hasInit
       /\ node.initType \in {"ArrowFunctionExpression", "FunctionExpression"}
       /\ ~isOnlyRedirect(node.bodyType, node.body)
    THEN [st EXCEPT !.isSimpleRedirect = FALSE]
    ELSE st

\* Lines 189-199: the CallExpression visitor; id names the visited node
RedirectCallExpression(st, node, id) ==
    IF node.calleeType = "Identifier" /\ node.calleeName = sRedirect
    THEN [st EXCEPT !.hasRedirectCall = TRUE,
                    !.redirectNode = id,
                    !.redirectDestination = extractDestination(node)]
    ELSE st

\* A variant of the exit handler that does not consult isSimpleRedirect
RedirectProgramExit_IgnoresBodies(st, filename) ==
    IF /\ st.hasRedirectCall
       /\ Truthy(st.redirectDestination)
       /\ st.redirectNode # 0
    THEN LET sourcePath == getSourcePath(filename)
             data == [source |-> sourcePath.value,
                      destination |-> st.redirectDestination.value,
                      permanent |-> "false"]
         IN  IF Truthy(sourcePath)
             THEN <<Diag("useConfigRedirect", st.redirectNode, data, FALSE, <<>>),
                    Diag("showExample", st.redirectNode, data, FALSE, <<>>)>>
             ELSE <<>>
    ELSE <<>>

\* Lines 201-237: the Program:exit handler; the diagnostics it reports, in order
RedirectProgramExit(st, filename) ==
    IF /\ st.hasRedirectCall
       /\ st.isSimpleRedirect
       /\ Truthy(st.redirectDestination)
       /\ st.redirectNode # 0
    THEN LET sourcePath == getSourcePath(filename)
             data == [source |-> sourcePath.value,
                      destination |-> st.redirectDestination.value,
                      permanent |-> "false"]
         IN  IF Truthy(sourcePath)
             THEN <<Diag("useConfigRedirect", st.redirectNode, data, FALSE, <<>>),
                    Diag("showExample", st.redirectNode, data, FALSE, <<>>)>>
             ELSE <<>>
    ELSE <<>>

(* The inputs of the redirect rule: files revealed one top-level statement  *)
(* at a time                                                                *)

MaxItems == 2

NoHist == [sawRedirectCall |-> FALSE, unextractable |-> FALSE, sawPageComponent |-> FALSE,
           allOnlyRedirect |-> TRUE, someOnlyRedirect |-> FALSE,
           lastDestination |-> Null, lastRedirect |-> 0]

\* The value of the redirect rule's variables while another rule is modelled
RDIdle ==
    /\ rdFilename = <<>> /\ rdActive = FALSE
    /\ rdState = RedirectState(FALSE, Null, TRUE, 0)
    /\ rdPending = <<>> /\ rdItems = 0 /\ rdVisits = 0
    /\ rdLast = Call("", <<>>, <<>>)
    /\ rdHist = NoHist /\ rdDone = FALSE /\ rdDiags = <<>>

NoArg == Argument("", "", <<>>, <<>>, <<>>)

StringLiteral(v) == Argument("Literal", "string", v, <<>>, <<>>)

Template(quasis, exprs) == Argument("TemplateLiteral", "", <<>>, quasis, exprs)

\* First arguments of redirect(..)
RedirectArgLists ==
    {<<>>,                                                   \* redirect()
     <<StringLiteral(sLogin)>>,                              \* redirect("/login")
     <<StringLiteral(<<>>)>>,                                \* redirect("")
     <<Argument("Literal", "number", <<"4", "2">>, <<>>, <<>>)>>,   \* redirect(42)
     <<Template(<<sLogin>>, <<>>)>>,                         \* redirect(`/login`)
     <<Template(<<sUsers, <<>>>>, <<TemplateExpr("Identifier", sId, "")>>)>>,
     <<Template(<<sUsers, <<>>>>, <<TemplateExpr("AwaitExpression", <<>>, "CallExpression")>>)>>,
     <<Template(<<sUsers, <<>>>>, <<TemplateExpr("AwaitExpression", <<>>, "Identifier")>>)>>,
     <<Template(<<sUsers, <<>>>>, <<TemplateExpr("MemberExpression", <<>>, "")>>)>>,
     <<Argument("Identifier", "", sUrl, <<>>, <<>>)>>}       \* redirect(url)

RedirectCall(args) == Call("Identifier", sRedirect, args)

OtherCall == Call("Identifier", sLog, <<>>)

\* Statements of a block body
stRedirectLogin == Statement("ExpressionStatement", "CallExpression",
                             <<RedirectCall(<<StringLiteral(sLogin)>>)>>)
stRedirectUrl == Statement("ExpressionStatement", "CallExpression",
                           <<RedirectCall(<<Argument("Identifier", "", sUrl, <<>>, <<>>)>>)>>)
stOtherCall == Statement("ExpressionStatement", "CallExpression", <<OtherCall>>)
stAssignment == Statement("ExpressionStatement", "AssignmentExpression", <<>>)
stVariable == Statement("VariableDeclaration", "", <<>>)
stReturnNull == Statement("ReturnStatement", "", <<>>)
stReturnRedirect == Statement("ReturnStatement", "",
                              <<RedirectCall(<<StringLiteral(sLogin)>>)>>)
stEmpty == Statement("EmptyStatement", "", <<>>)
stIf == Statement("IfStatement", "", <<>>)

\* A page component: const HomePage = (..) => body, or = function (..) body
PageArrow(bodyType, body) ==
    Declarator("Identifier", sHomePage, TRUE, "ArrowFunctionExpression", bodyType, body)

PageFunction(body) ==
    Declarator("Identifier", sHomePage, TRUE, "FunctionExpression", "BlockStatement", body)

\* Top-level statements of the files of the redirect model
RedirectItems ==
    {PageArrow("BlockStatement", b) :
        b \in SeqsOf({stRedirectLogin, stReturnNull, stVariable, stOtherCall}, 0, 2)}
    \cup {PageArrow("BlockStatement", <<stRedirectUrl>>),
          PageArrow("BlockStatement", <<stReturnRedirect>>),
          PageArrow("CallExpression", <<RedirectCall(<<StringLiteral(sLogin)>>)>>),
          PageArrow("CallExpression", <<OtherCall>>),
          PageArrow("JSXElement", <<>>),
          PageFunction(<<stRedirectLogin>>),
          PageFunction(<<stIf>>),
          Declarator("Identifier", sHomePage, TRUE, "CallExpression", "", <<>>),
          Declarator("Identifier", sHomePage, FALSE, "", "", <<>>),
          Declarator("ObjectPattern", <<>>, TRUE, "CallExpression", "", <<>>),
          Declarator("Identifier", sHelper, TRUE, "ArrowFunctionExpression",
                     "BlockStatement", <<stIf, stRedirectLogin>>),
          OtherCall}
    \cup {RedirectCall(as) : as \in RedirectArgLists}

\* The nodes of a block body's statements that the rule's visitors see, in
\* document order: the calls, and the declarator of a variable declaration
RECURSIVE StatementVisits(_)
StatementVisits(stmts) ==
    IF stmts = <<>> THEN <<>>
    ELSE (IF Head(stmts).type = "VariableDeclaration"
          THEN <<Declarator("Identifier", sUrl, TRUE, "CallExpression", "", <<>>)>>
          ELSE Head(stmts).call)
         \o StatementVisits(Tail(stmts))

\* The visits the host makes for one top-level statement (a node is visited
\* before its children)
VisitsOf(item) ==
    IF item.type = "VariableDeclarator"
    THEN <<item>> \o (IF item.bodyType = "BlockStatement" THEN StatementVisits(item.body)
                      ELSE IF item.bodyType = "CallExpression" THEN item.body
                      ELSE <<>>)
    ELSE <<item>>

RedirectFiles ==
    {FileName(<<sProj, sSrc, sApp, sMarketing, sOldPath>>, sPageTsx),
     FileName(<<sApp, sMarketing, sOldPath>>, sPageTsx),
     FileName(<<sProj, sSrc, sApp>>, sPageTsx),
     FileName(<<sSrc, sApp, sBlogPosts, sSlug>>, sPageTsx),
     FileName(<<sProj, sSrc, sApp, sOldPath>>, sLayoutTsx)}

-----------------------------------------------------------------------------
(* The useState rule on one call: lint, apply one Fix, lint again; the      *)
(* inputs are calls written as tokens                                      *)

MaxUnion == 3
MaxArgs == 2

TypeMembers == {<<k>> : k \in TypeKeywords} \cup {<<"string", "[", "]">>, <<"T", "[", "]">>}

TypeTexts == {Join(ms, <<"|">>) : ms \in SeqsOf(TypeMembers, 1, MaxUnion)}

ArgTexts == {<<a>> : a \in ArgAtoms} \cup {<<"[", "]">>}

\* Argument lists: plain, with the first argument parenthesised, with a trailing comma
ArgListTexts ==
    LET plain == {Join(as, <<",">>) : as \in SeqsOf(ArgTexts, 0, MaxArgs)}
    IN  plain
        \cup {<<"(">> \o a \o <<")">> : a \in ArgTexts}
        \cup {a \o <<",">> : a \in ArgTexts}

UseStateCalls ==
    {<<"useState", "<">> \o t \o <<">", "(">> \o a \o <<")">> :
        t \in TypeTexts, a \in ArgListTexts}
    \cup {<<c, "(">> \o a \o <<")">> : c \in {"useState", "useRef"}, a \in ArgListTexts}
    \cup {<<"useRef", "<">> \o t \o <<">", "(", ")">> : t \in TypeTexts}

USInit ==
    /\ usText \in UseStateCalls
    /\ usPhase = "parsed"
    /\ usDiags = <<>>
    /\ usFixed = <<>>
    /\ usPick = 0
    /\ usDiags2 = <<>>
    /\ nmFile = <<>> /\ nmCalls = 0 /\ nmResult = <<>>
    /\ inCall = NoInsertCall /\ inVisited = FALSE /\ inDiags = <<>>
    /\ RDIdle /\ PGIdle /\ ICIdle /\ DIIdle /\ TVIdle

\* The host visits the call: the rule runs and reports
USLint ==
    /\ usPhase = "parsed"
    /\ usDiags' = UseStateCallExpression(usText)
    /\ usPhase' = "linted"
    /\ UNCHANGED <<usText, usFixed, usPick, usDiags2>>
    /\ UNCHANGED <<nmVars, inVars, rdVars, pgVars, icVars, diVars, tvVars>>

\* The host applies the Fix of one reported diagnostic
USApplyFix ==
    /\ usPhase = "linted"
    /\ \E i \in 1..Len(usDiags) :
        /\ usDiags[i].hasFix
        /\ usPick' = i
        /\ usFixed' = ApplyFix(usText, usDiags[i].fix)
    /\ usPhase' = "fixed"
    /\ UNCHANGED <<usText, usDiags, usDiags2>>
    /\ UNCHANGED <<nmVars, inVars, rdVars, pgVars, icVars, diVars, tvVars>>

\* The host parses the fixed text and runs the rule again
USRelint ==
    /\ usPhase = "fixed"
    /\ usDiags2' = UseStateCallExpression(usFixed)
    /\ usPhase' = "relinted"
    /\ UNCHANGED <<usText, usDiags, usFixed, usPick>>
    /\ UNCHANGED <<nmVars, inVars, rdVars, pgVars, icVars, diVars, tvVars>>

USNext == USLint \/ USApplyFix \/ USRelint

SpecUseState == USInit /\ [][USNext]_vars

(* C1: idempotence of the redundant-useState-type rule: after the Fix of a  *)
(* reported diagnostic has been applied, a second run of the rule on the    *)
(* fixed call reports nothing.                                              *)
C1_FixIsIdempotent ==
    usPhase = "relinted" => usDiags2 = <<>>

-----------------------------------------------------------------------------
(* The Name Synthesizer on its own: generatePageName applied to page file  *)
(* names built from directory segments.                                    *)

MaxDirs == 3
MaxCalls == 2

NameSegments == {<<>>, sProj, sSrc, sApp, sBlogPosts, sMarketing, sSlug, sDash}

NameFiles == {FileName(dirs, sPageTsx) : dirs \in SeqsOf(NameSegments, 0, MaxDirs)}

NMInit ==
    /\ nmFile \in NameFiles
    /\ nmCalls = 0
    /\ nmResult = <<>>
    /\ usText = <<>> /\ usPhase = "off" /\ usDiags = <<>> /\ usFixed = <<>>
    /\ usPick = 0 /\ usDiags2 = <<>>
    /\ inCall = NoInsertCall /\ inVisited = FALSE /\ inDiags = <<>>
    /\ RDIdle /\ PGIdle /\ ICIdle /\ DIIdle /\ TVIdle

\* One call of generatePageName(filename)
NMGenerate ==
    /\ nmCalls < MaxCalls
    /\ nmResult' = generatePageName(nmFile)
    /\ nmCalls' = nmCalls + 1
    /\ UNCHANGED <<nmFile, usVars, inVars, rdVars, pgVars, icVars, diVars, tvVars>>

NMNext == NMGenerate

SpecName == NMInit /\ [][NMNext]_vars

\* The directory segments of a file name, nearest to the file first
RECURSIVE Reverse(_)
Reverse(q) == IF q = <<>> THEN <<>> ELSE Reverse(Tail(q)) \o <<Head(q)>>

DirsNearestFirst(filename) ==
    LET parts == Split(filename, "/")
    IN  Reverse(SubSeq(parts, 1, Len(parts) - 1))

\* The walk as the claim states it: the same markers are skipped at every position
RECURSIVE C10_Walk(_)
C10_Walk(dirs) ==
    IF dirs = <<>> THEN sDefaultPage
    ELSE IF Head(dirs) = <<>> \/ StartsWith(Head(dirs), <<"(">>)
            \/ Head(dirs) = sApp \/ Head(dirs) = sSrc
        THEN C10_Walk(Tail(dirs))
    ELSE PascalPage(Head(dirs))

(* C10: generatePageName walks the directory segments from the one nearest  *)
(* the file toward the root, skips empty, parenthesised, `app` and `src`    *)
(* segments at every position, and names the page after the first segment   *)
(* that remains (DefaultPage when none does).                               *)
C10_SameMarkersEverywhere ==
    nmCalls > 0 => nmResult = C10_Walk(DirsNearestFirst(nmFile))

-----------------------------------------------------------------------------
(* The insert rule on one call                                             *)

INInit ==
    /\ inCall \in InsertCalls
    /\ inVisited = FALSE
    /\ inDiags = <<>>
    /\ usText = <<>> /\ usPhase = "off" /\ usDiags = <<>> /\ usFixed = <<>>
    /\ usPick = 0 /\ usDiags2 = <<>>
    /\ nmFile = <<>> /\ nmCalls = 0 /\ nmResult = <<>>
    /\ RDIdle /\ PGIdle /\ ICIdle /\ DIIdle /\ TVIdle

\* The host visits the call expression
INCallExpression ==
    /\ ~inVisited
    /\ inDiags' = InsertCallExpression(inCall)
    /\ inVisited' = TRUE
    /\ UNCHANGED <<inCall, usVars, nmVars, rdVars, pgVars, icVars, diVars, tvVars>>

INNext == INCallExpression

SpecInsert == INInit /\ [][INNext]_vars

\* The offending object literals of a first argument, by anchor, in document order
C5_Offending(arg) ==
    IF arg.type = "ObjectExpression"
        THEN IF hasId(arg) THEN <<<<1>>>> ELSE <<>>
    ELSE IF arg.type = "ArrayExpression"
        THEN LET idx == {i \in 1..Len(arg.elements) :
                            arg.elements[i].type = "ObjectExpression" /\ hasId(arg.elements[i])}
                 nth[k \in 0..Cardinality(idx)] ==
                    IF k = 0 THEN 0
                    ELSE CHOOSE i \in idx : i > nth[k - 1] /\ \A j \in idx : j > nth[k - 1] => i <= j
             IN  [k \in 1..Cardinality(idx) |-> <<1, nth[k]>>]
    ELSE <<>>

IsInsertCall(call) ==
    /\ call.calleeType = "MemberExpression"
    /\ call.propertyType = "Identifier"
    /\ call.propertyName = "insert"

-----------------------------------------------------------------------------
(* The redirect rule over one file traversal                               *)

OtherRulesIdle ==
    /\ usText = <<>> /\ usPhase = "off" /\ usDiags = <<>> /\ usFixed = <<>>
    /\ usPick = 0 /\ usDiags2 = <<>>
    /\ nmFile = <<>> /\ nmCalls = 0 /\ nmResult = <<>>
    /\ inCall = NoInsertCall /\ inVisited = FALSE /\ inDiags = <<>>

\* create(context), lines 28-40
RDInit ==
    /\ rdFilename \in RedirectFiles
    /\ rdActive = IsPageFile(rdFilename)
    /\ rdState = RedirectState(FALSE, Null, TRUE, 0)
    /\ rdPending = <<>> /\ rdItems = 0 /\ rdVisits = 0
    /\ rdLast = Call("", <<>>, <<>>)
    /\ rdHist = NoHist /\ rdDone = FALSE /\ rdDiags = <<>>
    /\ OtherRulesIdle /\ PGIdle /\ ICIdle /\ DIIdle /\ TVIdle

\* The host reaches the next top-level statement of the file
RDEnterStatement ==
    /\ ~rdDone /\ rdPending = <<>> /\ rdItems < MaxItems
    /\ \E item \in RedirectItems : rdPending' = VisitsOf(item)
    /\ rdItems' = rdItems + 1
    /\ UNCHANGED <<rdFilename, rdActive, rdState, rdVisits, rdLast, rdHist, rdDone, rdDiags>>
    /\ UNCHANGED <<usVars, nmVars, inVars, pgVars, icVars, diVars, tvVars>>

\* A destination the claims call unextractable: a missing argument, a literal that
\* is no string, a template with an interpolation that is neither a bare
\* identifier nor `await <call>`, any other kind of expression
Unextractable(node) ==
    \/ Len(node.arguments) = 0
    \/ /\ Len(node.arguments) > 0
       /\ LET a == node.arguments[1]
          IN  \/ a.type = "Literal" /\ a.valueType # "string"
              \/ a.type \notin {"Literal", "TemplateLiteral"}
              \/ /\ a.type = "TemplateLiteral"
                 /\ \E i \in 1..Len(a.expressions) :
                        /\ a.expressions[i].type # "Identifier"
                        /\ ~(a.expressions[i].type = "AwaitExpression"
                             /\ a.expressions[i].argumentType = "CallExpression")

IsPageComponent(node) ==
    /\ node.type = "VariableDeclarator"
    /\ node.idType = "Identifier"
    /\ EndsWith(node.name, sPage)
    /\ node.hasInit
    /\ node.initType \in {"ArrowFunctionExpression", "FunctionExpression"}

IsRedirectCall(node) ==
    node.type = "CallExpression" /\ node.calleeType = "Identifier" /\ node.calleeName = sRedirect

\* What a visit adds to the history of the traversal
Remember(hist, node, id) ==
    IF IsPageComponent(node)
    THEN [hist EXCEPT
            !.sawPageComponent = TRUE,
            !.allOnlyRedirect = hist.allOnlyRedirect /\ isOnlyRedirect(node.bodyType, node.body),
            !.someOnlyRedirect = hist.someOnlyRedirect \/ isOnlyRedirect(node.bodyType, node.body)]
    ELSE IF IsRedirectCall(node)
    THEN [hist EXCEPT
            !.sawRedirectCall = TRUE,
            !.unextractable = hist.unextractable \/ Unextractable(node),
            !.lastDestination = extractDestination(node),
            !.lastRedirect = id]
    ELSE hist

\* The host visits a VariableDeclarator node
RDVariableDeclarator ==
    /\ rdActive /\ rdPending # <<>> /\ Head(rdPending).type = "VariableDeclarator"
    /\ rdState' = RedirectVariableDeclarator(rdState, Head(rdPending))
    /\ rdHist' = Remember(rdHist, Head(rdPending), rdVisits + 1)
    /\ rdLast' = Head(rdPending)
    /\ rdPending' = Tail(rdPending)
    /\ rdVisits' = rdVisits + 1
    /\ UNCHANGED <<rdFilename, rdActive, rdItems, rdDone, rdDiags>>
    /\ UNCHANGED <<usVars, nmVars, inVars, pgVars, icVars, diVars, tvVars>>

\* The host visits a CallExpression node
RDCallExpression ==
    /\ rdActive /\ rdPending # <<>> /\ Head(rdPending).type = "CallExpression"
    /\ rdState' = RedirectCallExpression(rdState, Head(rdPending), rdVisits + 1)
    /\ rdHist' = Remember(rdHist, Head(rdPending), rdVisits + 1)
    /\ rdLast' = Head(rdPending)
    /\ rdPending' = Tail(rdPending)
    /\ rdVisits' = rdVisits + 1
    /\ UNCHANGED <<rdFilename, rdActive, rdItems, rdDone, rdDiags>>
    /\ UNCHANGED <<usVars, nmVars, inVars, pgVars, icVars, diVars, tvVars>>

\* Lines 33-35: create() returned {} for a file that is no page.tsx, so the host
\* visits the node without calling the rule
RDNoVisitor ==
    /\ ~rdActive /\ rdPending # <<>>
    /\ rdLast' = Head(rdPending)
    /\ rdPending' = Tail(rdPending)
    /\ rdVisits' = rdVisits + 1
    /\ UNCHANGED <<rdFilename, rdActive, rdState, rdItems, rdHist, rdDone, rdDiags>>
    /\ UNCHANGED <<usVars, nmVars, inVars, pgVars, icVars, diVars, tvVars>>

\* The host ends the traversal: "Program:exit"
RDProgramExit ==
    /\ rdActive /\ ~rdDone /\ rdPending = <<>>
    /\ rdDiags' = rdDiags \o RedirectProgramExit(rdState, rdFilename)
    /\ rdDone' = TRUE
    /\ UNCHANGED <<rdFilename, rdActive, rdState, rdPending, rdItems, rdVisits, rdLast, rdHist>>
    /\ UNCHANGED <<usVars, nmVars, inVars, pgVars, icVars, diVars, tvVars>>

\* The traversal of a file that is no page.tsx ends: no handler is registered
RDNoExitHandler ==
    /\ ~rdActive /\ ~rdDone /\ rdPending = <<>>
    /\ rdDone' = TRUE
    /\ UNCHANGED <<rdFilename, rdActive, rdState, rdPending, rdItems, rdVisits, rdLast,
                   rdHist, rdDiags>>
    /\ UNCHANGED <<usVars, nmVars, inVars, pgVars, icVars, diVars, tvVars>>

RDNext ==
    \/ RDEnterStatement
    \/ RDVariableDeclarator
    \/ RDCallExpression
    \/ RDNoVisitor
    \/ RDProgramExit
    \/ RDNoExitHandler

SpecRedirect == RDInit /\ [][RDNext]_vars

(* C6: if any visited redirect call has an unextractable first argument,    *)
(* the rule reports nothing at the end of the traversal, whatever other     *)
(* redirect calls were visited before or after it.                          *)
C6_UnextractableSuppressesFinding ==
    (rdDone /\ rdHist.unextractable) => rdDiags = <<>>

\* The two diagnostics of a finding
C7_Finding(source, destination, anchor) ==
    LET data == [source |-> source, destination |-> destination, permanent |-> "false"]
    IN  <<Diag("useConfigRedirect", anchor, data, FALSE, <<>>),
          Diag("showExample", anchor, data, FALSE, <<>>)>>

C7_Emission(destinationExtracted) ==
    /\ ~rdDone => rdDiags = <<>>
    /\ rdDone =>
        IF /\ rdHist.sawRedirectCall
           /\ rdHist.allOnlyRedirect
           /\ destinationExtracted
           /\ ~getSourcePath(rdFilename).isNull
        THEN rdDiags = C7_Finding(getSourcePath(rdFilename).value,
                                  rdHist.lastDestination.value, rdHist.lastRedirect)
        ELSE rdDiags = <<>>

RECURSIVE C9_Segments(_)
C9_Segments(dirs) ==
    IF dirs = <<>> THEN <<>>
    ELSE LET d == Head(dirs)
         IN  IF Len(d) >= 2 /\ d[1] = "(" /\ d[Len(d)] = ")"
                 THEN C9_Segments(Tail(dirs))
             ELSE IF Len(d) >= 3 /\ d[1] = "[" /\ d[Len(d)] = "]"
                 THEN <<"/", ":">> \o SubSeq(d, 2, Len(d) - 1) \o C9_Segments(Tail(dirs))
             ELSE <<"/">> \o d \o C9_Segments(Tail(dirs))

C9_UnderApp(filename) ==
    LET parts == Split(filename, "/")
    IN  \E i \in 1..(Len(parts) - 1) : parts[i] = sApp

C9_Route(filename) ==
    LET parts == Split(filename, "/")
        app == CHOOSE i \in 1..(Len(parts) - 1) :
                    parts[i] = sApp /\ \A j \in 1..(i - 1) : parts[j] # sApp
        route == C9_Segments(Slice(parts, app + 1, Len(parts) - 1))
    IN  IF route = <<>> THEN <<"/">> ELSE route

(* C9: for every page file under an `app` directory the route is derivable: *)
(* when the other conditions of a finding hold, the rule reports with the   *)
(* route derived from the directories below `app` (groups elided, [name]    *)
(* turned into :name, "/" when nothing remains), e.g. /old-path for         *)
(* /app/(marketing)/old-path with destination /login.                       *)
C9_RouteDerivableUnderApp ==
    (/\ rdDone /\ rdActive /\ C9_UnderApp(rdFilename)
     /\ rdHist.sawRedirectCall /\ rdHist.allOnlyRedirect
     /\ Truthy(rdHist.lastDestination)) =>
        /\ Len(rdDiags) = 2
        /\ \A k \in 1..Len(rdDiags) :
            /\ rdDiags[k].data.source = C9_Route(rdFilename)
            /\ rdDiags[k].data.destination = rdHist.lastDestination.value

-----------------------------------------------------------------------------
(* The VariableDeclarator visitor on one page component                    *)

MaxStmts == 3

BodyStatements == {stRedirectLogin, stRedirectUrl, stOtherCall, stAssignment, stVariable,
                   stReturnNull, stReturnRedirect, stEmpty, stIf}

PageComponents ==
    {PageArrow("BlockStatement", b) : b \in SeqsOf(BodyStatements, 0, MaxStmts)}
    \cup {PageFunction(b) : b \in SeqsOf(BodyStatements, 0, MaxStmts)}
    \cup {PageArrow("CallExpression", <<RedirectCall(<<StringLiteral(sLogin)>>)>>),
          PageArrow("CallExpression", <<OtherCall>>),
          PageArrow("CallExpression", <<Call("MemberExpression", sRedirect, <<>>)>>),
          PageArrow("JSXElement", <<>>)}

\* A page file whose next node to visit is a page component
BDInit ==
    /\ rdFilename = FileName(<<sProj, sSrc, sApp, sOldPath>>, sPageTsx)
    /\ rdActive = IsPageFile(rdFilename)
    /\ rdState = RedirectState(FALSE, Null, TRUE, 0)
    /\ \E c \in PageComponents : rdPending = <<c>>
    /\ rdItems = 1 /\ rdVisits = 0
    /\ rdLast = Call("", <<>>, <<>>)
    /\ rdHist = NoHist /\ rdDone = FALSE /\ rdDiags = <<>>
    /\ OtherRulesIdle /\ PGIdle /\ ICIdle /\ DIIdle /\ TVIdle

BDNext == RDVariableDeclarator

SpecBody == BDInit /\ [][BDNext]_vars

\* The claim's definition of an only-redirect body, read generously: a redirect
\* call that is returned counts as the call, and the leading return may return
\* anything
C8_IsRedirect(stmt) ==
    \/ IsRedirectStatement(stmt)
    \/ /\ stmt.type = "ReturnStatement"
       /\ stmt.call # <<>>
       /\ IsRedirectCall(stmt.call[1])

C8_OnlyRedirect(bodyType, body) ==
    IF bodyType = "BlockStatement"
    THEN LET statements == SelectSeq(body, LAMBDA stmt : stmt.type # "EmptyStatement")
         IN  \/ Len(statements) = 1 /\ C8_IsRedirect(statements[1])
             \/ /\ Len(statements) = 2
                /\ statements[1].type \in {"VariableDeclaration", "ReturnStatement"}
                /\ ~C8_IsRedirect(statements[1])
                /\ C8_IsRedirect(statements[2])
    ELSE bodyType = "CallExpression" /\ IsRedirectCall(body[1])

(* C8: a page component's body is classified only-redirect exactly when,    *)
(* ignoring empty statements, it is at most one leading variable            *)
(* declaration or return statement followed by exactly one redirect call as *)
(* its last statement, or an expression body that is a redirect call.       *)
C8_OnlyRedirectDefinition ==
    (rdVisits = 1 /\ IsPageComponent(rdLast)) =>
        (rdState.isSimpleRedirect <=> C8_OnlyRedirect(rdLast.bodyType, rdLast.body))

-----------------------------------------------------------------------------
(* The page-pattern rule over one file: a run, one Fix applied, a second run *)

BodyToken == Tok("body")

PageNames == {sPage, sHomePage, sHelper}

\* none, `: NextPage`, `: FC`
PageAnnotations == {<<>>, <<Tok(":"), Id(sNextPage)>>, <<Tok(":"), Id(sFC)>>}

\* `()`, `(props)` and `(props: Props)`
PageParams == {<<>>, <<Id(sPropsArg)>>, <<Id(sPropsArg), Tok(":"), Id(sProps)>>}

ArrowText(isAsync, params) ==
    (IF isAsync THEN <<Tok("async")>> ELSE <<>>)
    \o <<Tok("(")>> \o params \o <<Tok(")"), Tok("=>"), BodyToken>>

FunctionText(isAsync, name, params) ==
    (IF isAsync THEN <<Tok("async")>> ELSE <<>>)
    \o <<Tok("function")>> \o name \o <<Tok("(")>> \o params \o <<Tok(")"), BodyToken>>

\* The initializers of a declaration, with their `=`; <<>> is no initializer
PageInitializers ==
    {<<>>, <<Tok("="), Tok("expr")>>, <<Tok("=")>> \o ArrowText(TRUE, <<>>)}
    \cup {<<Tok("=")>> \o ArrowText(FALSE, p) : p \in PageParams}
    \cup {<<Tok("=")>> \o FunctionText(isAsync, <<>>, p) :
            isAsync \in BOOLEAN, p \in PageParams}

VariableText(exported, kind, name, annotation, init) ==
    (IF exported THEN <<Tok("export")>> ELSE <<>>)
    \o <<Tok(kind), Id(name)>> \o annotation \o init \o <<Tok(";")>>

PageImports ==
    {<<>>,
     NextPageImportText,
     <<Tok("import"), Tok("{"), Id(sUseState), Tok("}"), Tok("from"), StringToken(sReact),
       Tok(";")>>}

\* Where a file has `export default <name>;`: nowhere, before or after the
\* declaration
DefaultExportPlaces == {"none", "before", "after"}

\* A declaration alone, or with `export default <its name>;` before or after it
DeclarationText(exported, kind, name, annotation, init, place) ==
    LET decl == VariableText(exported, kind, name, annotation, init)
    IN  IF place = "before" THEN ExportDefaultText(name) \o decl
        ELSE IF place = "after" THEN decl \o ExportDefaultText(name)
        ELSE decl

\* The names a default-exported function may have: none, or one of PageNames
FunctionNames == {<<>>} \cup {<<Id(c)>> : c \in PageNames}

DefaultFunctionText(isAsync, name, params) ==
    <<Tok("export"), Tok("default")>> \o FunctionText(isAsync, name, params)

\* An import is the first statement of a file or, as imports are hoisted, its
\* last
WithImport(import, last, text) == IF last THEN text \o import ELSE import \o text

PageFiles ==
    {FileName(<<sProj, sSrc, sApp>>, sPageTsx),
     FileName(<<sApp, sBlogPosts>>, sPageTsx),
     FileName(<<sApp, sBlogPosts>>, sLayoutTsx)}

\* create(context), lines 52-63, followed by the start of the traversal
PGInit ==
    /\ pgFilename \in PageFiles
    /\ \E import \in PageImports, last \in BOOLEAN :
        \/ \E e \in BOOLEAN, k \in DeclarationKinds, n \in PageNames, a \in PageAnnotations,
              i \in PageInitializers, place \in DefaultExportPlaces :
                pgText = WithImport(import, last, DeclarationText(e, k, n, a, i, place))
        \/ \E isAsync \in BOOLEAN, n \in FunctionNames, p \in PageParams :
                pgText = WithImport(import, last, DefaultFunctionText(isAsync, n, p))
    /\ pgActive = IsPageFile(pgFilename)
    /\ pgRun = 1
    /\ pgState = PageState(FALSE, NoPageNode)
    /\ pgPending = PageVisits(ProgramBody(pgText))
    /\ pgDiags = <<>> /\ pgPick = 0 /\ pgFixed = <<>> /\ pgDiags2 = <<>>
    /\ OtherRulesIdle /\ RDIdle /\ ICIdle /\ DIIdle /\ TVIdle

\* The text the current run lints
PGSource == IF pgRun = 2 THEN pgFixed ELSE pgText

\* context.report in the current run
PGReport(reports) ==
    /\ pgDiags' = IF pgRun = 1 THEN pgDiags \o reports ELSE pgDiags
    /\ pgDiags2' = IF pgRun = 2 THEN pgDiags2 \o reports ELSE pgDiags2

PGVisit(type) ==
    /\ pgActive /\ pgPending # <<>> /\ Head(pgPending).type = type
    /\ pgPending' = Tail(pgPending)
    /\ UNCHANGED <<pgFilename, pgText, pgActive, pgRun, pgPick, pgFixed>>
    /\ UNCHANGED <<usVars, nmVars, inVars, rdVars, icVars, diVars, tvVars>>

\* The host visits an ImportDeclaration node
PGImportDeclaration ==
    /\ PGVisit("ImportDeclaration")
    /\ pgState' = PageImportDeclaration(pgState, Head(pgPending))
    /\ PGReport(<<>>)

PGExportDefaultResult(out) ==
    /\ pgState' = out.state
    /\ PGReport(out.reports)

\* The host visits an ExportDefaultDeclaration node
PGExportDefaultDeclaration ==
    /\ PGVisit("ExportDefaultDeclaration")
    /\ PGExportDefaultResult(PageExportDefaultDeclaration(pgState, Head(pgPending), PGSource,
                                                         ProgramBody(PGSource), pgFilename))

\* The host visits an ExportNamedDeclaration node
PGExportNamedDeclaration ==
    /\ PGVisit("ExportNamedDeclaration")
    /\ PGReport(PageExportNamedDeclaration(pgState, Head(pgPending), PGSource,
                                           ProgramBody(PGSource)))
    /\ UNCHANGED pgState

\* The host visits a VariableDeclaration node
PGVariableDeclaration ==
    /\ PGVisit("VariableDeclaration")
    /\ PGReport(PageVariableDeclaration(pgState, Head(pgPending), PGSource,
                                        ProgramBody(PGSource), pgFilename))
    /\ UNCHANGED pgState

\* Lines 57-59: create() returned {} for a file that is no page.tsx, so the host
\* visits the node without calling the rule
PGNoVisitor ==
    /\ ~pgActive /\ pgPending # <<>>
    /\ pgPending' = Tail(pgPending)
    /\ UNCHANGED <<pgFilename, pgText, pgActive, pgRun, pgState, pgDiags, pgPick, pgFixed,
                   pgDiags2>>
    /\ UNCHANGED <<usVars, nmVars, inVars, rdVars, icVars, diVars, tvVars>>

\* After the first run the host applies the Fix of one diagnostic and lints the
\* result: create() again, then the traversal of the new tree
PGApplyFix ==
    /\ pgRun = 1 /\ pgPending = <<>>
    /\ \E i \in 1..Len(pgDiags) :
        /\ pgDiags[i].hasFix
        /\ pgPick' = i
        /\ pgFixed' = ApplyFix(pgText, pgDiags[i].fix)
    /\ pgRun' = 2
    /\ pgState' = PageState(FALSE, NoPageNode)
    /\ pgPending' = PageVisits(ProgramBody(pgFixed'))
    /\ UNCHANGED <<pgFilename, pgText, pgActive, pgDiags, pgDiags2>>
    /\ UNCHANGED <<usVars, nmVars, inVars, rdVars, icVars, diVars, tvVars>>

PGNext ==
    \/ PGImportDeclaration
    \/ PGExportDefaultDeclaration
    \/ PGExportNamedDeclaration
    \/ PGVariableDeclaration
    \/ PGNoVisitor
    \/ PGApplyFix

SpecPage == PGInit /\ [][PGNext]_vars

\* The diagnostic whose Fix was applied
PGPicked == pgDiags[pgPick]

\* The second run is over
PGRelinted == pgRun = 2 /\ pgPending = <<>>

(* C2: applying the Fix of one diagnostic of the page-pattern rule and      *)
(* running the rule on the result yields no diagnostic.                     *)
C2_FixIsIdempotent ==
    PGRelinted => pgDiags2 = <<>>

\* The statements of a tree that are `export default <name>;`
DefaultExportsOf(body, name) ==
    {i \in 1..Len(body) :
        /\ body[i].type = "ExportDefaultDeclaration"
        /\ body[i].declarationType = "Identifier"
        /\ body[i].name = name}

\* The statements of a tree that are default-export declarations
DefaultExports(body) ==
    {i \in 1..Len(body) : body[i].type = "ExportDefaultDeclaration"}

\* The statements of a tree that declare a non-exported const of the name
ConstsOf(body, name) ==
    {i \in 1..Len(body) :
        /\ body[i].type = "VariableDeclaration"
        /\ body[i].kind = "const"
        /\ body[i].name = name}

\* The statements of a tree that are exported const declarations
ExportedConsts(body) ==
    {i \in 1..Len(body) :
        body[i].type = "ExportNamedDeclaration" /\ body[i].kind = "const"}

C3_Renamed(fixed, name) ==
    /\ ConstsOf(fixed, name) # {}
    /\ DefaultExportsOf(fixed, name) # {}
    /\ DefaultExportsOf(fixed, sPage) = {}

(* C3: in a page file with a non-exported `const Page = ...` and a statement *)
(* `export default Page`, in either order, the Fix of badComponentName has   *)
(* two edits, and after it both the declaration and the default export       *)
(* carry the synthesized name.                                               *)
C3_RenameCoversDefaultExport ==
    (/\ pgRun = 2
     /\ PGPicked.messageId = "badComponentName"
     /\ DefaultExportsOf(ProgramBody(pgText), sPage) # {}) =>
        /\ Len(PGPicked.fix) = 2
        /\ C3_Renamed(ProgramBody(pgFixed), generatePageName(pgFilename))

C4_Fixed(before, fixed, fix, name) ==
    /\ (\E k \in 1..Len(fix) : fix[k].text = ExportDefaultText(name))
            <=> DefaultExports(before) = {}
    /\ ConstsOf(fixed, name) # {}
    /\ Cardinality(DefaultExports(fixed)) = 1

C4_Name(body) == body[CHOOSE i \in ExportedConsts(body) : TRUE].name

(* C4: the Fix of noDirectExport on an exported const strips `export` and   *)
(* appends `export default <name>;` after the last statement if and only if *)
(* the file has no default-export declaration, wherever that declaration    *)
(* is; so the fixed file never has two default-export statements.           *)
C4_AppendsDefaultExportIffNone ==
    (/\ pgRun = 2
     /\ PGPicked.messageId = "noDirectExport"
     /\ ExportedConsts(ProgramBody(pgText)) # {}) =>
        C4_Fixed(ProgramBody(pgText), ProgramBody(pgFixed), PGPicked.fix,
                 C4_Name(ProgramBody(pgText)))

-----------------------------------------------------------------------------
(* The Fix of noExportDefaultFunction                                      *)

\* The first run is over
PGLinted == pgActive /\ pgRun = 1 /\ pgPending = <<>>

\* The statements of a tree that are `export default function F ...` with a name
NamedDefaultFunctions(body) ==
    {i \in 1..Len(body) :
        /\ body[i].type = "ExportDefaultDeclaration"
        /\ body[i].declarationType = "FunctionDeclaration"
        /\ body[i].hasId}

\* The file imports NextPage from next, wherever the import stands
ImportsNextPage(body) ==
    \E i \in 1..Len(body) :
        /\ body[i].type = "ImportDeclaration"
        /\ body[i].source = sNext
        /\ body[i].specifierType = "ImportSpecifier"
        /\ body[i].imported = sNextPage

\* `const <name>: NextPage[<Props>] = [async ](params) => body;` followed by
\* `export default <name>;` for the function node of the text
C11_Component(toks, node, name) ==
    <<Tok("const"), Id(name), Tok(":"), Id(sNextPage)>>
    \o (IF node.params # <<>> /\ node.params[1].hasTypeAnnotation
        THEN <<Tok("<")>>
             \o Slice(toks, node.params[1].typeAnnotationRange[1] + 2,
                      node.params[1].typeAnnotationRange[2])
             \o <<Tok(">")>>
        ELSE <<>>)
    \o <<Tok("=")>>
    \o (IF node.async THEN <<Tok("async")>> ELSE <<>>)
    \o <<Tok("(")>>
    \o (IF node.params # <<>>
        THEN Slice(toks, node.params[1].range[1] + 1, node.params[1].range[2])
        ELSE <<>>)
    \o <<Tok(")"), Tok("=>")>>
    \o Slice(toks, node.bodyRange[1] + 1, node.bodyRange[2])
    \o <<Tok(";"), Tok("export"), Tok("default"), Id(name), Tok(";")>>

\* The name as the claim gives it: F when F ends in Page, else the synthesized one
C11_Name(node, filename) ==
    IF EndsWith(node.name, sPage) THEN node.name ELSE generatePageName(filename)

\* One diagnostic, whose Fix is the replacement and, iff needsImport, the import
C11_Fix(diags, node, component, needsImport) ==
    /\ Len(diags) = 1
    /\ diags[1].messageId = "noExportDefaultFunction"
    /\ diags[1].hasFix
    /\ Len(diags[1].fix) = IF needsImport THEN 2 ELSE 1
    /\ \E k \in 1..Len(diags[1].fix) :
            diags[1].fix[k] = Edit(node.range[1], node.range[2], component)
    /\ needsImport <=> \E k \in 1..Len(diags[1].fix) :
                            diags[1].fix[k].text = NextPageImportText

C11_FixOf(toks, body, node, filename) ==
    C11_Fix(pgDiags, node, C11_Component(toks, node, C11_Name(node, filename)),
            ~ImportsNextPage(body))

C11_Node(body) == body[CHOOSE i \in NamedDefaultFunctions(body) : TRUE]

(* C11: for `export default function F(params) body` in a page file the rule *)
(* reports one diagnostic whose Fix replaces the declaration by              *)
(* `const <name>: NextPage[<Props>] = [async ](params) => body;` and         *)
(* `export default <name>;`, with <name> = F when F ends in Page and the     *)
(* synthesized name otherwise, <Props> exactly when the first parameter has  *)
(* a type annotation, and the NextPage import edit exactly when the file has *)
(* no import of NextPage from next.                                          *)
C11_ExportDefaultFunctionFix ==
    (PGLinted /\ NamedDefaultFunctions(ProgramBody(pgText)) # {}) =>
        C11_FixOf(pgText, ProgramBody(pgText), C11_Node(ProgramBody(pgText)), pgFilename)

-----------------------------------------------------------------------------
(* C12: the union-narrowing Fix of the useState rule: whenever             *)
(* redundantUndefinedUnion or preferUndefinedOverNull is reported, applying *)
(* its Fix leaves the call text useState<Base>() with zero arguments, Base  *)
(* being the base type text of the report, for every argument list on which *)
(* the diagnostic is reported.                                              *)
C12_UnionMessages == {"redundantUndefinedUnion", "preferUndefinedOverNull"}

C12_Narrowed(base) == <<"useState", "<">> \o base \o <<">", "(", ")">>

C12_UnionFixLeavesNoArgument ==
    (usPhase \in {"fixed", "relinted"} /\ usDiags[usPick].messageId \in C12_UnionMessages)
        => usFixed = C12_Narrowed(usDiags[usPick].data)

\* The same statement restricted to calls written with exactly one argument, no
\* parentheses around it and no trailing comma: the only shape the Fix handles.
C12_PlainSingleArgument ==
    LET call == ParseCall(usText)
    IN  /\ Len(call.arguments) = 1
        /\ getTokenAfter(call.arguments[1].range)[2] = Len(usText)
        /\ call.arguments[1].range[1] = getTokenAfter(call.typeArguments)[2]

C12_UnionFixOnPlainSingleArgument ==
    (/\ usPhase \in {"fixed", "relinted"}
     /\ usDiags[usPick].messageId \in C12_UnionMessages
     /\ C12_PlainSingleArgument)
        => usFixed = C12_Narrowed(usDiags[usPick].data)

-----------------------------------------------------------------------------
(* lucide-icon-suffix                                                      *)
(* src/src/rules/react-no-redundant-usestate-types.ts, lines 298-402       *)
(*                                                                         *)
(* The file is a token sequence: one import declaration                    *)
(*     import [D] [,] [* as L | { A, B as C, ... }] from "module" ;        *)
(* followed by statements `X ;` (a reference to X) and blocks              *)
(* `{ let X ; ... }` in which X names the block's own variable.            *)

sIcon == <<"I", "c", "o", "n">>
sHomeIcon == <<"H", "o", "m", "e", "I", "c", "o", "n">>
sUser == <<"U", "s", "e", "r">>
sH == <<"H">>
sLucideReact == <<"l", "u", "c", "i", "d", "e", "-", "r", "e", "a", "c", "t">>

\* An identifier node of a specifier: its name and its range
IconIdentifier(toks, i) == [name |-> toks[i].s, range |-> <<i - 1, i>>]

\* ImportSpecifier / ImportDefaultSpecifier / ImportNamespaceSpecifier
IconSpecifier(type, imported, local, lo) ==
    [type |-> type, imported |-> imported, local |-> local,
     range |-> <<lo, local.range[2]>>]

NoIconImport == [ok |-> FALSE, specifiers |-> <<>>, next |-> 0]

\* The named specifiers after `{`, up to and including `}`
RECURSIVE IconParseNamed(_, _, _)
IconParseNamed(toks, i, acc) ==
    IF At(toks, i) = "}" THEN [ok |-> TRUE, specifiers |-> acc, next |-> i + 1]
    ELSE IF At(toks, i) # "id" THEN NoIconImport
    ELSE IF At(toks, i + 1) = "as" /\ At(toks, i + 2) = "id"
    THEN IF At(toks, i + 3) \in {",", "}"}
         THEN IconParseNamed(toks, IF At(toks, i + 3) = "," THEN i + 4 ELSE i + 3,
                  Append(acc, IconSpecifier("ImportSpecifier", IconIdentifier(toks, i),
                                            IconIdentifier(toks, i + 2), i - 1)))
         ELSE NoIconImport
    ELSE IF At(toks, i + 1) \in {",", "}"}
         THEN IconParseNamed(toks, IF At(toks, i + 1) = "," THEN i + 2 ELSE i + 1,
                  Append(acc, IconSpecifier("ImportSpecifier", IconIdentifier(toks, i),
                                            IconIdentifier(toks, i), i - 1)))
         ELSE NoIconImport

\* `* as L`, `{ ... }` or nothing, after the specifiers in acc
IconParseClause(toks, i, acc) ==
    IF At(toks, i) = "*" /\ At(toks, i + 1) = "as" /\ At(toks, i + 2) = "id"
    THEN [ok |-> TRUE, next |-> i + 3,
          specifiers |-> Append(acc, IconSpecifier("ImportNamespaceSpecifier",
                             IconIdentifier(toks, i + 2), IconIdentifier(toks, i + 2), i - 1))]
    ELSE IF At(toks, i) = "{" THEN IconParseNamed(toks, i + 1, acc)
    ELSE [ok |-> acc # <<>>, specifiers |-> acc, next |-> i]

\* The specifiers of the declaration, a default specifier first if there is one
IconParseSpecifiers(toks) ==
    IF At(toks, 1) # "import" THEN NoIconImport
    ELSE IF At(toks, 2) = "id"
    THEN IconParseClause(toks, IF At(toks, 3) = "," THEN 4 ELSE 3,
             <<IconSpecifier("ImportDefaultSpecifier", IconIdentifier(toks, 2),
                             IconIdentifier(toks, 2), 1)>>)
    ELSE IconParseClause(toks, 2, <<>>)

\* The references of the statements after the import. A reference resolves to
\* the module scope unless it names the variable of the block around it.
RECURSIVE IconParseBody(_, _, _, _, _)
IconParseBody(toks, i, inBlock, blockName, acc) ==
    IF i > Len(toks) THEN acc
    ELSE IF At(toks, i) = "id" /\ At(toks, i + 1) = ";"
    THEN IconParseBody(toks, i + 2, inBlock, blockName,
             Append(acc, [name |-> toks[i].s, range |-> <<i - 1, i>>,
                          module |-> ~(inBlock /\ toks[i].s = blockName)]))
    ELSE IF At(toks, i) = "{" /\ At(toks, i + 1) = "let" /\ At(toks, i + 2) = "id"
            /\ At(toks, i + 3) = ";"
    THEN IconParseBody(toks, i + 4, TRUE, toks[i + 2].s, acc)
    ELSE IF At(toks, i) = "}" THEN IconParseBody(toks, i + 1, FALSE, <<>>, acc)
    ELSE IconParseBody(toks, i + 1, inBlock, blockName, acc)

\* The ImportDeclaration node and the references of the file
IconProgramOf(toks, clause) ==
    IF clause.ok /\ At(toks, clause.next) = "from" /\ At(toks, clause.next + 1) = "str"
        /\ At(toks, clause.next + 2) = ";"
    THEN [ok |-> TRUE, source |-> toks[clause.next + 1].s,
          specifiers |-> clause.specifiers,
          references |-> IconParseBody(toks, clause.next + 3, FALSE, <<>>, <<>>)]
    ELSE [ok |-> FALSE, source |-> <<>>, specifiers |-> <<>>, references |-> <<>>]

IconProgram(toks) == IconProgramOf(toks, IconParseSpecifiers(toks))

\* sourceCode.getDeclaredVariables(node) and variable.references of the variable
\* called name: the module-scope references to that name, in source order
DeclaredVariableReferences(program, name) ==
    SelectSeq(program.references, LAMBDA ref : ref.module /\ ref.name = name)

\* Lines 340-392, first part only: what the Fix would be without the references
IconFix_SpecifierOnly(program, specifier, suggestedName) ==
    <<Edit(specifier.imported.range[1], specifier.imported.range[2], <<Id(suggestedName)>>)>>

\* Lines 340-392: the edits of the Fix
IconFix(program, specifier, suggestedName) ==
    <<Edit(specifier.imported.range[1], specifier.imported.range[2], <<Id(suggestedName)>>)>>
    \o (IF specifier.imported.name = specifier.local.name
        THEN LET refs == SelectSeq(DeclaredVariableReferences(program, specifier.local.name),
                                   LAMBDA ref : ref.range # specifier.local.range)
             IN  [k \in 1..Len(refs) |->
                     Edit(refs[k].range[1], refs[k].range[2], <<Id(suggestedName)>>)]
        ELSE <<>>)

\* Lines 323-396: the body of forEach for one specifier
IconSpecifierReports(program, specifier) ==
    IF specifier.type = "ImportSpecifier" /\ ~EndsWith(specifier.imported.name, sIcon)
    THEN <<Diag("missingIconSuffix", specifier.range,
                [imported |-> specifier.imported.name,
                 suggested |-> specifier.imported.name \o sIcon],
                TRUE, IconFix(program, specifier, specifier.imported.name \o sIcon))>>
    ELSE <<>>

\* Lines 318-397: the ImportDeclaration visitor; the diagnostics it reports, in order
IconImportDeclaration(program) ==
    IF ~program.ok \/ program.source # sLucideReact THEN <<>>
    ELSE Flatten([k \in 1..Len(program.specifiers) |->
                     IconSpecifierReports(program, program.specifiers[k])])

-----------------------------------------------------------------------------
(* The icon-suffix rule on one file: lint, apply one Fix, lint again.      *)

MaxSpecs == 2
MaxRefs == 2

IconImported == {sHome, sHomeIcon, sUser}

\* A named specifier: `A`, `A as A`, `A as H`
IconNamedTexts ==
    {<<Id(a)>> : a \in IconImported}
    \cup {<<Id(a), Tok("as"), Id(a)>> : a \in IconImported}
    \cup {<<Id(a), Tok("as"), Id(sH)>> : a \in IconImported}

IconLocalOf(text) == text[Len(text)].s

\* Lists of named specifiers with pairwise distinct local names
IconNamedLists ==
    {ss \in SeqsOf(IconNamedTexts, 0, MaxSpecs) :
        \A i, j \in 1..Len(ss) : i # j => IconLocalOf(ss[i]) # IconLocalOf(ss[j])}

IconClauses ==
    {<<Tok("{")>> \o Join(ss, <<Tok(",")>>) \o <<Tok("}")>> : ss \in IconNamedLists}
    \cup {<<Id(sReact), Tok(","), Tok("{")>> \o Join(ss, <<Tok(",")>>) \o <<Tok("}")>> :
            ss \in {s \in IconNamedLists : Len(s) = 1}}
    \cup {<<Id(sReact)>>, <<Tok("*"), Tok("as"), Id(sHome)>>,
          <<Id(sReact), Tok(","), Tok("*"), Tok("as"), Id(sHome)>>}

IconSources == {sLucideReact, sReact}

IconStatements ==
    {<<Id(n), Tok(";")>> : n \in {sHome, sH, sUser}}
    \cup {<<Tok("{"), Tok("let"), Id(sHome), Tok(";"), Id(sHome), Tok(";"), Tok("}")>>}

IconBodies == {Flatten(b) : b \in SeqsOf(IconStatements, 0, MaxRefs)}

ICInit ==
    /\ \E clause \in IconClauses, source \in IconSources, body \in IconBodies :
        icText = <<Tok("import")>> \o clause
                     \o <<Tok("from"), StringToken(source), Tok(";")>> \o body
    /\ icPhase = "parsed"
    /\ icDiags = <<>> /\ icPick = 0 /\ icFixed = <<>> /\ icDiags2 = <<>>
    /\ OtherRulesIdle /\ RDIdle /\ PGIdle /\ DIIdle /\ TVIdle

\* The host visits the import declaration: the rule runs and reports
ICLint ==
    /\ icPhase = "parsed"
    /\ icDiags' = IconImportDeclaration(IconProgram(icText))
    /\ icPhase' = "linted"
    /\ UNCHANGED <<icText, icPick, icFixed, icDiags2>>
    /\ UNCHANGED <<usVars, nmVars, inVars, rdVars, pgVars, diVars, tvVars>>

\* The host applies the Fix of one reported diagnostic
ICApplyFix ==
    /\ icPhase = "linted"
    /\ \E i \in 1..Len(icDiags) :
        /\ icDiags[i].hasFix
        /\ icPick' = i
        /\ icFixed' = ApplyFix(icText, icDiags[i].fix)
    /\ icPhase' = "fixed"
    /\ UNCHANGED <<icText, icDiags, icDiags2>>
    /\ UNCHANGED <<usVars, nmVars, inVars, rdVars, pgVars, diVars, tvVars>>

\* The host parses the fixed text and runs the rule again
ICRelint ==
    /\ icPhase = "fixed"
    /\ icDiags2' = IconImportDeclaration(IconProgram(icFixed))
    /\ icPhase' = "relinted"
    /\ UNCHANGED <<icText, icDiags, icPick, icFixed>>
    /\ UNCHANGED <<usVars, nmVars, inVars, rdVars, pgVars, diVars, tvVars>>

ICNext == ICLint \/ ICApplyFix \/ ICRelint

SpecIcon == ICInit /\ [][ICNext]_vars

(* C13: the icon-suffix rule. For an import from lucide-react exactly one   *)
(* diagnostic is reported per named specifier whose imported name does not  *)
(* end in Icon, anchored at it, and none otherwise. The Fix of a diagnostic *)
(* renames the imported name to name+Icon; when the local name equals the   *)
(* imported name it has in addition one edit per reference bound to the     *)
(* import, each renaming to name+Icon, and when aliased it is that single   *)
(* edit. After the Fix a second run reports nothing for that specifier.     *)
C13_Offending(program) ==
    IF program.source = sLucideReact
    THEN SelectSeq(program.specifiers,
                   LAMBDA sp : sp.type = "ImportSpecifier"
                               /\ ~EndsWith(sp.imported.name, sIcon))
    ELSE <<>>

C13_Bound(program, sp) ==
    {ref.range : ref \in {r \in Range(program.references) :
                              r.module /\ r.name = sp.local.name}}

C13_Renames(program, sp) ==
    {Edit(sp.imported.range[1], sp.imported.range[2], <<Id(sp.imported.name \o sIcon)>>)}
    \cup (IF sp.local.name = sp.imported.name
          THEN {Edit(r[1], r[2], <<Id(sp.imported.name \o sIcon)>>) :
                   r \in C13_Bound(program, sp)}
          ELSE {})

C13_Reports(program, offending, diags) ==
    /\ Len(diags) = Len(offending)
    /\ \A k \in 1..Len(diags) :
        /\ diags[k].messageId = "missingIconSuffix"
        /\ diags[k].node = offending[k].range
        /\ diags[k].hasFix
        /\ Range(diags[k].fix) = C13_Renames(program, offending[k])
        /\ Len(diags[k].fix) = Cardinality(C13_Renames(program, offending[k]))

C13_IconSuffixRule ==
    /\ icPhase \in {"linted", "fixed", "relinted"} =>
            C13_Reports(IconProgram(icText), C13_Offending(IconProgram(icText)), icDiags)
    /\ icPhase = "relinted" =>
            \A k \in 1..Len(icDiags2) : icDiags2[k].node # icDiags[icPick].node

\* An unaliased specifier with a bound reference was reported, fixed and linted again
C13_Witness ==
    /\ icPhase = "relinted"
    /\ Len(icDiags[icPick].fix) >= 2
    /\ icDiags2 # <<>>

-----------------------------------------------------------------------------
(* supabase-no-direct-imports                                              *)
(* src/src/rules/supabase-no-insert-with-id.ts, lines 88-183               *)

sSupabaseJs ==
    <<"@", "s", "u", "p", "a", "b", "a", "s", "e", "/", "s", "u", "p", "a", "b", "a", "s",
      "e", "-", "j", "s">>
sSupabaseSsr == <<"@", "s", "u", "p", "a", "b", "a", "s", "e", "/", "s", "s", "r">>
sIntegrationsDir ==
    <<"s", "r", "c", "/", "i", "n", "t", "e", "g", "r", "a", "t", "i", "o", "n", "s", "/",
      "s", "u", "p", "a", "b", "a", "s", "e", "/">>
sFunctionsDir ==
    <<"s", "u", "p", "a", "b", "a", "s", "e", "/", "f", "u", "n", "c", "t", "i", "o", "n",
      "s", "/">>
sLibDir ==
    <<"s", "r", "c", "/", "l", "i", "b", "/", "s", "u", "p", "a", "b", "a", "s", "e", "/">>
sClientPath ==
    <<"@", "/", "i", "n", "t", "e", "g", "r", "a", "t", "i", "o", "n", "s", "/", "s", "u",
      "p", "a", "b", "a", "s", "e", "/", "c", "l", "i", "e", "n", "t">>
sCreateClient == <<"c", "r", "e", "a", "t", "e", "C", "l", "i", "e", "n", "t">>
sCreateServerClient ==
    <<"c", "r", "e", "a", "t", "e", "S", "e", "r", "v", "e", "r", "C", "l", "i", "e", "n",
      "t">>
sClientTs == <<"c", "l", "i", "e", "n", "t", ".", "t", "s">>
sServerTs == <<"s", "e", "r", "v", "e", "r", ".", "t", "s">>
sIndexTs == <<"i", "n", "d", "e", "x", ".", "t", "s">>

\* An import declaration `import <specifiers> from "source";`: the module name,
\* the specifiers and the range of the source literal
DirectImport(source, specifiers, sourceRange) ==
    [source |-> source, specifiers |-> specifiers, sourceRange |-> sourceRange]

\* Lines 133-135 and 163-165: the imported names of the named specifiers
importedNames(node) ==
    LET named == SelectSeq(node.specifiers, LAMBDA spec : spec.type = "ImportSpecifier")
    IN  {named[k].imported : k \in 1..Len(named)}

\* Lines 121-154: the branch for @supabase/supabase-js
DirectSupabaseJs(filename, node) ==
    IF Includes(filename, sIntegrationsDir) THEN <<>>
    ELSE IF Includes(filename, sFunctionsDir) THEN <<>>
    ELSE IF sCreateClient \in importedNames(node)
    THEN <<Diag("noDirectSupabaseImport", "node",
                [source |-> node.source, replacement |-> sClientPath], TRUE,
                <<Edit(node.sourceRange[1], node.sourceRange[2],
                       <<StringToken(sClientPath)>>)>>)>>
    ELSE <<>>

\* Lines 157-175: the branch for @supabase/ssr
DirectSupabaseSsr(filename, node) ==
    IF Includes(filename, sLibDir) THEN <<>>
    ELSE IF sCreateServerClient \in importedNames(node)
    THEN <<Diag("noDirectSSRImport", "node", [source |-> node.source], FALSE, <<>>)>>
    ELSE <<>>

\* Lines 117-177: the ImportDeclaration visitor; the diagnostics it reports
DirectImportDeclaration(filename, node) ==
    IF node.source = sSupabaseJs THEN DirectSupabaseJs(filename, node)
    ELSE IF node.source = sSupabaseSsr THEN DirectSupabaseSsr(filename, node)
    ELSE <<>>

-----------------------------------------------------------------------------
(* The direct-import rule on one import declaration of one file.           *)

DirectFiles ==
    {<<"/">> \o sProj \o <<"/">> \o dir \o file :
        dir \in {sIntegrationsDir, sFunctionsDir, sLibDir, sSrcApp \o <<"/">>},
        file \in {sClientTs, sServerTs, sPageTsx}}

DirectSpecifiers ==
    {[type |-> "ImportSpecifier", imported |-> n] :
        n \in {sCreateClient, sCreateServerClient, sUser}}
    \cup {[type |-> "ImportDefaultSpecifier", imported |-> <<>>],
          [type |-> "ImportNamespaceSpecifier", imported |-> <<>>]}

DirectSources == {sSupabaseJs, sSupabaseSsr, sReact}

\* `import` `{` a `,` b `}` `from` "source": the source literal follows the clause
DirectImports ==
    {DirectImport(source, specs, <<2 * Len(specs) + 3, 2 * Len(specs) + 4>>) :
        source \in DirectSources, specs \in SeqsOf(DirectSpecifiers, 1, MaxSpecs)}

DIInit ==
    /\ diFilename \in DirectFiles
    /\ diImport \in DirectImports
    /\ diVisited = FALSE /\ diDiags = <<>>
    /\ OtherRulesIdle /\ RDIdle /\ PGIdle /\ ICIdle /\ TVIdle

\* The host visits the import declaration
DIImportDeclaration ==
    /\ ~diVisited
    /\ diDiags' = DirectImportDeclaration(diFilename, diImport)
    /\ diVisited' = TRUE
    /\ UNCHANGED <<diFilename, diImport>>
    /\ UNCHANGED <<usVars, nmVars, inVars, rdVars, pgVars, icVars, tvVars>>

DINext == DIImportDeclaration

SpecDirect == DIInit /\ [][DINext]_vars

(* C14: path exceptions of the direct-import rule: when the file's path lies *)
(* under src/integrations/supabase/, supabase/functions/ or                *)
(* src/lib/supabase/, the rule reports nothing for the import declaration,  *)
(* whichever of @supabase/supabase-js and @supabase/ssr it names and        *)
(* whatever it imports.                                                     *)
C14_WrapperDirectories == {sIntegrationsDir, sFunctionsDir, sLibDir}

C14_UnderWrapperDirectory(filename) ==
    \E dir \in C14_WrapperDirectories : Includes(filename, dir)

C14_WrapperFilesExempt ==
    (diVisited /\ C14_UnderWrapperDirectory(diFilename)) => diDiags = <<>>

\* What the code does: each directory exempts one module only
C14_ExemptModule(filename, source) ==
    \/ source = sSupabaseJs
        /\ (Includes(filename, sIntegrationsDir) \/ Includes(filename, sFunctionsDir))
    \/ source = sSupabaseSsr /\ Includes(filename, sLibDir)

C14_ExemptPerModule ==
    (diVisited /\ C14_ExemptModule(diFilename, diImport.source)) => diDiags = <<>>

-----------------------------------------------------------------------------
(* A file handed to one of the three rules that read context.filename: the *)
(* page-pattern rule, the redirect-only rule or the direct-import rule.    *)

LFInit == PGInit \/ RDInit \/ DIInit

LFNext ==
    \/ pgFilename # <<>> /\ PGNext
    \/ rdFilename # <<>> /\ RDNext
    \/ diFilename # <<>> /\ DINext

SpecLintFile == LFInit /\ [][LFNext]_vars

(* C15: confinement to page entry points: for a file whose path does not   *)
(* end in /page.tsx the page-pattern rule and the redirect-only rule        *)
(* register no visitors, keep their accumulators untouched and report       *)
(* nothing, whatever nodes are visited; the direct-import rule is not       *)
(* restricted by this classification: it reports a denylisted import in     *)
(* page.tsx files and in other files alike.                                 *)
C15_Elsewhere(filename) == filename # <<>> /\ ~EndsWith(filename, sSlashPageTsx)

C15_DirectViolation(filename, node) ==
    LET names == {node.specifiers[k].imported :
                     k \in {j \in 1..Len(node.specifiers) :
                               node.specifiers[j].type = "ImportSpecifier"}}
    IN  \/ /\ node.source = sSupabaseJs /\ sCreateClient \in names
           /\ ~Includes(filename, sIntegrationsDir) /\ ~Includes(filename, sFunctionsDir)
        \/ /\ node.source = sSupabaseSsr /\ sCreateServerClient \in names
           /\ ~Includes(filename, sLibDir)

C15_ConfinedToPageFiles ==
    /\ C15_Elsewhere(pgFilename) =>
        /\ ~pgActive
        /\ pgState = PageState(FALSE, NoPageNode)
        /\ pgDiags = <<>> /\ pgDiags2 = <<>>
    /\ C15_Elsewhere(rdFilename) =>
        /\ ~rdActive
        /\ rdState = RedirectState(FALSE, Null, TRUE, 0)
        /\ rdDiags = <<>>
    /\ (diVisited /\ C15_DirectViolation(diFilename, diImport)) => diDiags # <<>>

\* A layout.tsx file that exports a function by default has been traversed to
\* its end by the page-pattern rule
C15_Witness ==
    /\ C15_Elsewhere(pgFilename)
    /\ NamedDefaultFunctions(ProgramBody(pgText)) # {}
    /\ pgPending = <<>>

-----------------------------------------------------------------------------
(* Several traversals of the two page rules at once. The host calls        *)
(* create(context) once per file and rule; the accumulators are the `let`  *)
(* variables of that call, shared by the visitors it returns and by        *)
(* nothing else. A slot holds one traversal: its file, the nodes still to  *)
(* be visited, its accumulators and its diagnostics.                       *)

Slots == 1..2
MaxCreates == 3

NoTraversal ==
    [rule |-> "none", filename |-> <<>>, text |-> <<>>, active |-> FALSE,
     nodes |-> <<>>, pending |-> <<>>, visited |-> 0, page |-> PageState(FALSE, NoPageNode),
     redirect |-> RedirectState(FALSE, Null, TRUE, 0), diags |-> <<>>, done |-> FALSE]

\* create(context) of either rule on a file: the page.tsx test, then fresh
\* accumulators (part_001 lines 52-63, next-no-redirect-only-pages.ts lines 28-40)
NewTraversal(rule, filename, text, visits) ==
    [rule |-> rule, filename |-> filename, text |-> text, active |-> IsPageFile(filename),
     nodes |-> visits, pending |-> visits, visited |-> 0, page |-> PageState(FALSE, NoPageNode),
     redirect |-> RedirectState(FALSE, Null, TRUE, 0), diags |-> <<>>, done |-> FALSE]

\* The accumulators a visitor of slot t closes over, were they module-level
\* variables shared by every traversal
Accumulator_ModuleLevel(slots, t) == slots[1]

\* The accumulators a visitor of slot t closes over: those of its own create()
Accumulator(slots, t) == slots[t]

\* The page-pattern visitors, by node type: the new accumulators and the reports
PageVisitor(st, node, toks, body, filename) ==
    IF node.type = "ImportDeclaration"
        THEN [state |-> PageImportDeclaration(st, node), reports |-> <<>>]
    ELSE IF node.type = "ExportDefaultDeclaration"
        THEN PageExportDefaultDeclaration(st, node, toks, body, filename)
    ELSE IF node.type = "ExportNamedDeclaration"
        THEN [state |-> st, reports |-> PageExportNamedDeclaration(st, node, toks, body)]
    ELSE IF node.type = "VariableDeclaration"
        THEN [state |-> st,
              reports |-> PageVariableDeclaration(st, node, toks, body, filename)]
    ELSE [state |-> st, reports |-> <<>>]

\* The redirect-only visitors, by node type: the new accumulators
RedirectVisitor(st, node, id) ==
    IF node.type = "VariableDeclarator" THEN RedirectVariableDeclarator(st, node)
    ELSE IF node.type = "CallExpression" THEN RedirectCallExpression(st, node, id)
    ELSE st

TVPageTexts ==
    {WithImport(i, FALSE, DefaultFunctionText(FALSE, <<Id(sHelper)>>, <<>>)) :
        i \in {<<>>, NextPageImportText}}
    \cup {WithImport(i, FALSE, DeclarationText(e, "const", sHomePage, <<>>,
                                   <<Tok("=")>> \o ArrowText(FALSE, <<>>), "after")) :
            i \in {<<>>, NextPageImportText}, e \in BOOLEAN}

TVRedirectItems ==
    {PageArrow("BlockStatement", b) :
        b \in {<<stRedirectLogin>>, <<stRedirectLogin, stOtherCall>>, <<stReturnNull>>}}

TVFiles ==
    {NewTraversal("page", FileName(<<sApp, sBlogPosts>>, sPageTsx), text,
                  PageVisits(ProgramBody(text))) : text \in TVPageTexts}
    \cup {NewTraversal("redirect", f, <<>>, VisitsOf(item)) :
            f \in {FileName(<<sProj, sSrc, sApp, sMarketing, sOldPath>>, sPageTsx),
                   FileName(<<sProj, sSrc, sApp, sOldPath>>, sLayoutTsx)},
            item \in TVRedirectItems}

TVInit ==
    /\ tvSlots = [t \in Slots |-> NoTraversal]
    /\ tvCreated = 0
    /\ OtherRulesIdle /\ RDIdle /\ PGIdle /\ ICIdle /\ DIIdle

\* The host starts linting a file with one of the rules in a free slot
TVCreate ==
    /\ tvCreated < MaxCreates
    /\ \E t \in Slots, file \in TVFiles :
        /\ tvSlots[t].rule = "none" \/ tvSlots[t].done
        /\ tvSlots' = [tvSlots EXCEPT ![t] = file]
    /\ tvCreated' = tvCreated + 1
    /\ UNCHANGED <<usVars, nmVars, inVars, rdVars, pgVars, icVars, diVars>>

TVPageResult(t, slot, out) ==
    tvSlots' = [tvSlots EXCEPT ![t].page = out.state,
                               ![t].diags = slot.diags \o out.reports,
                               ![t].pending = Tail(slot.pending),
                               ![t].visited = slot.visited + 1]

\* The host visits the next node of a page-pattern traversal
TVPageVisit ==
    /\ \E t \in Slots :
        /\ tvSlots[t].rule = "page" /\ tvSlots[t].active /\ tvSlots[t].pending # <<>>
        /\ TVPageResult(t, tvSlots[t],
               PageVisitor(Accumulator(tvSlots, t).page, Head(tvSlots[t].pending),
                           tvSlots[t].text, ProgramBody(tvSlots[t].text),
                           tvSlots[t].filename))
    /\ UNCHANGED tvCreated
    /\ UNCHANGED <<usVars, nmVars, inVars, rdVars, pgVars, icVars, diVars>>

\* The host visits the next node of a redirect-only traversal
TVRedirectVisit ==
    /\ \E t \in Slots :
        /\ tvSlots[t].rule = "redirect" /\ tvSlots[t].active /\ tvSlots[t].pending # <<>>
        /\ tvSlots' = [tvSlots EXCEPT
               ![t].redirect = RedirectVisitor(Accumulator(tvSlots, t).redirect,
                                   Head(tvSlots[t].pending), tvSlots[t].visited + 1),
               ![t].pending = Tail(tvSlots[t].pending),
               ![t].visited = tvSlots[t].visited + 1]
    /\ UNCHANGED tvCreated
    /\ UNCHANGED <<usVars, nmVars, inVars, rdVars, pgVars, icVars, diVars>>

\* create() returned {}: the host visits the node without calling the rule
TVNoVisitor ==
    /\ \E t \in Slots :
        /\ tvSlots[t].rule # "none" /\ ~tvSlots[t].active /\ tvSlots[t].pending # <<>>
        /\ tvSlots' = [tvSlots EXCEPT ![t].pending = Tail(tvSlots[t].pending),
                                      ![t].visited = tvSlots[t].visited + 1]
    /\ UNCHANGED tvCreated
    /\ UNCHANGED <<usVars, nmVars, inVars, rdVars, pgVars, icVars, diVars>>

\* The host ends a redirect-only traversal: "Program:exit"
TVRedirectExit ==
    /\ \E t \in Slots :
        /\ tvSlots[t].rule = "redirect" /\ tvSlots[t].active
        /\ tvSlots[t].pending = <<>> /\ ~tvSlots[t].done
        /\ tvSlots' = [tvSlots EXCEPT
               ![t].diags = tvSlots[t].diags
                            \o RedirectProgramExit(Accumulator(tvSlots, t).redirect,
                                                   tvSlots[t].filename),
               ![t].done = TRUE]
    /\ UNCHANGED tvCreated
    /\ UNCHANGED <<usVars, nmVars, inVars, rdVars, pgVars, icVars, diVars>>

\* A traversal without an exit handler ends
TVEnd ==
    /\ \E t \in Slots :
        /\ tvSlots[t].rule = "page" \/ (tvSlots[t].rule = "redirect" /\ ~tvSlots[t].active)
        /\ tvSlots[t].pending = <<>> /\ ~tvSlots[t].done
        /\ tvSlots' = [tvSlots EXCEPT ![t].done = TRUE]
    /\ UNCHANGED tvCreated
    /\ UNCHANGED <<usVars, nmVars, inVars, rdVars, pgVars, icVars, diVars>>

TVNext ==
    \/ TVCreate
    \/ TVPageVisit
    \/ TVRedirectVisit
    \/ TVNoVisitor
    \/ TVRedirectExit
    \/ TVEnd

SpecTraversals == TVInit /\ [][TVNext]_vars

(* C16: statelessness across traversals: the accumulators of a traversal    *)
(* start from their initial values and are read and written by that         *)
(* traversal only, so whether a rule runs twice on a file or traversals of   *)
(* different files are interleaved in any order, a finished traversal has    *)
(* reported exactly the diagnostics of a run of the rule on its file alone.  *)
RECURSIVE C16_PageAlone(_, _, _, _, _)
C16_PageAlone(st, visits, toks, body, filename) ==
    IF visits = <<>> THEN <<>>
    ELSE PageVisitor(st, Head(visits), toks, body, filename).reports
         \o C16_PageAlone(PageVisitor(st, Head(visits), toks, body, filename).state,
                          Tail(visits), toks, body, filename)

RECURSIVE C16_RedirectAlone(_, _, _, _)
C16_RedirectAlone(st, visits, id, filename) ==
    IF visits = <<>> THEN RedirectProgramExit(st, filename)
    ELSE C16_RedirectAlone(RedirectVisitor(st, Head(visits), id), Tail(visits), id + 1,
                           filename)

C16_Alone(slot) ==
    IF ~EndsWith(slot.filename, sSlashPageTsx) THEN <<>>
    ELSE IF slot.rule = "page"
    THEN C16_PageAlone(PageState(FALSE, NoPageNode), slot.nodes, slot.text,
                       ProgramBody(slot.text), slot.filename)
    ELSE C16_RedirectAlone(RedirectState(FALSE, Null, TRUE, 0), slot.nodes, 1,
                           slot.filename)

C16_TraversalsAreIsolated ==
    \A t \in Slots : tvSlots[t].done => tvSlots[t].diags = C16_Alone(tvSlots[t])

\* The first slot has finished a traversal that reported something while the
\* second slot is in the middle of a traversal by the same rule, and one of the
\* slots has been used twice
C16_Witness ==
    /\ tvCreated = MaxCreates
    /\ tvSlots[1].done /\ tvSlots[1].diags # <<>>
    /\ tvSlots[2].rule = tvSlots[1].rule
    /\ tvSlots[2].visited > 0 /\ tvSlots[2].pending # <<>>

-----------------------------------------------------------------------------
(* The three rules whose Fix can have several edits, each on its own file: *)
(* the page-pattern rule, the icon-suffix rule and the useState rule. The  *)
(* useState calls have a type argument of one or two members, the only     *)
(* ones the rule reports, and every argument list of ArgListTexts.         *)

FixCalls ==
    {<<"useState", "<">> \o Join(ms, <<"|">>) \o <<">", "(">> \o a \o <<")">> :
        ms \in SeqsOf(TypeMembers, 1, 2), a \in ArgListTexts}

FXInit ==
    \/ PGInit
    \/ ICInit
    \/ /\ usText \in FixCalls
       /\ usPhase = "parsed"
       /\ usDiags = <<>> /\ usFixed = <<>> /\ usPick = 0 /\ usDiags2 = <<>>
       /\ nmFile = <<>> /\ nmCalls = 0 /\ nmResult = <<>>
       /\ inCall = NoInsertCall /\ inVisited = FALSE /\ inDiags = <<>>
       /\ RDIdle /\ PGIdle /\ ICIdle /\ DIIdle /\ TVIdle

FXNext == PGNext \/ ICNext \/ USNext

SpecFixes == FXInit /\ [][FXNext]_vars

(* C17: edit validity: for every diagnostic that carries a Fix, every edit  *)
(* of the Fix has its range inside the linted text and no two edits of the  *)
(* Fix overlap; ranges that only touch are allowed.                         *)
C17_Inside(edit, len) ==
    0 <= edit.range[1] /\ edit.range[1] <= edit.range[2] /\ edit.range[2] <= len

C17_Apart(a, b) == a.range[2] <= b.range[1] \/ b.range[2] <= a.range[1]

C17_ValidFix(fix, len) ==
    /\ \A i \in 1..Len(fix) : C17_Inside(fix[i], len)
    /\ \A i, j \in 1..Len(fix) : i # j => C17_Apart(fix[i], fix[j])

C17_ValidFixes(diags, len) ==
    \A k \in 1..Len(diags) : diags[k].hasFix => C17_ValidFix(diags[k].fix, len)

C17_EditsAreValid ==
    /\ C17_ValidFixes(pgDiags, Len(pgText)) /\ C17_ValidFixes(pgDiags2, Len(pgFixed))
    /\ C17_ValidFixes(icDiags, Len(icText)) /\ C17_ValidFixes(icDiags2, Len(icFixed))
    /\ C17_ValidFixes(usDiags, Len(usText)) /\ C17_ValidFixes(usDiags2, Len(usFixed))

\* A Fix of the page-pattern rule that inserts the import at offset 0 and
\* replaces the statement that starts at offset 0
C17_Witness ==
    \E k \in 1..Len(pgDiags) :
        /\ pgDiags[k].hasFix
        /\ \E i, j \in 1..Len(pgDiags[k].fix) :
            /\ pgDiags[k].fix[i].range = <<0, 0>>
            /\ pgDiags[k].fix[j].range[1] = 0 /\ pgDiags[k].fix[j].range[2] > 0

-----------------------------------------------------------------------------
(* C18: the arrow-function violation. For a non-exported const of a page    *)
(* file whose name ends in Page and whose initializer is not an arrow       *)
(* function the rule reports notArrowFunction once, anchored at the         *)
(* initializer. The diagnostic has a Fix exactly when the initializer is a  *)
(* function expression; the Fix is one edit replacing the initializer by    *)
(* `[async ](params) => body` with the parameter text, the body text and    *)
(* the async-ness of the original. An arrow initializer is not reported.    *)
C18_PageConsts(body) ==
    {i \in 1..Len(body) :
        /\ body[i].type = "VariableDeclaration"
        /\ body[i].kind = "const"
        /\ body[i].hasInit
        /\ EndsWith(body[i].name, sPage)}

\* `[async] function (params) body` rewritten: drop `function`, put `=>`
\* before the body
C18_Arrow(init) ==
    LET isAsync == init[1].k = "async"
        rest == IF isAsync THEN Tail(Tail(init)) ELSE Tail(init)
    IN  (IF isAsync THEN <<Tok("async")>> ELSE <<>>)
        \o SubSeq(rest, 1, Len(rest) - 1) \o <<Tok("=>"), rest[Len(rest)]>>

C18_Reported(diags) == {k \in 1..Len(diags) : diags[k].messageId = "notArrowFunction"}

C18_Holds(toks, node, diags) ==
    IF node.initType = "ArrowFunctionExpression" THEN C18_Reported(diags) = {}
    ELSE /\ Cardinality(C18_Reported(diags)) = 1
         /\ \A k \in C18_Reported(diags) :
            /\ diags[k].node = node.initRange
            /\ diags[k].hasFix <=> node.initType = "FunctionExpression"
            /\ diags[k].hasFix =>
                diags[k].fix = <<Edit(node.initRange[1], node.initRange[2],
                                      C18_Arrow(SubSeq(toks, node.initRange[1] + 1,
                                                       node.initRange[2])))>>

C18_Check(toks, body, diags) ==
    \A i \in C18_PageConsts(body) : C18_Holds(toks, body[i], diags)

C18_NotArrowFunction == PGLinted => C18_Check(pgText, ProgramBody(pgText), pgDiags)

\* An async function expression with a parameter was reported with a Fix
C18_Witness ==
    /\ PGLinted
    /\ \E k \in 1..Len(pgDiags) :
        /\ pgDiags[k].messageId = "notArrowFunction" /\ pgDiags[k].hasFix
        /\ pgDiags[k].fix[1].text[1].k = "async"
        /\ Len(pgDiags[k].fix[1].text) > 5

-----------------------------------------------------------------------------
(* C19: which objects the insert rule takes to contain a property keyed id: *)
(* an object literal is reported if and only if it has a non-spread         *)
(* property whose key denotes the name id, written as an identifier or as   *)
(* the string literal "id"; a computed key [id] does not count; spread      *)
(* elements and other keys are skipped.                                     *)
C19_DenotesId(prop) ==
    /\ prop.type = "Property"
    /\ ~prop.computed
    /\ \/ prop.key.type = "Identifier" /\ prop.key.name = "id"
       \/ prop.key.type = "Literal" /\ prop.key.value = "id"

C19_KeyedId(object) ==
    \E i \in 1..Len(object.properties) : C19_DenotesId(object.properties[i])

C19_ReportedIffKeyedId ==
    (/\ inVisited /\ IsInsertCall(inCall) /\ Len(inCall.arguments) > 0
     /\ inCall.arguments[1].type = "ObjectExpression")
        => (inDiags # <<>> <=> C19_KeyedId(inCall.arguments[1]))

\* What the code tests: the key node has a name field equal to id, which holds
\* for identifier keys, computed or not, and never for literal keys
C19_NamedId(object) ==
    \E i \in 1..Len(object.properties) :
        /\ object.properties[i].type = "Property"
        /\ object.properties[i].key.type = "Identifier"
        /\ object.properties[i].key.name = "id"

C19_ReportedIffNamedId ==
    (/\ inVisited /\ IsInsertCall(inCall) /\ Len(inCall.arguments) > 0
     /\ inCall.arguments[1].type = "ObjectExpression")
        => (inDiags # <<>> <=> C19_NamedId(inCall.arguments[1]))

-----------------------------------------------------------------------------
(* C20: synthesized names are usable page-component names: for every page   *)
(* file path, also one whose nearest directory is a dynamic segment such as *)
(* [slug] or is made only of `-`, generatePageName returns a valid          *)
(* identifier that ends in Page and is not the bare word Page.              *)
C20_Letters ==
    {"a", "b", "c", "d", "e", "f", "g", "h", "i", "j", "k", "l", "m", "n", "o", "p", "q",
     "r", "s", "t", "u", "v", "w", "x", "y", "z", "A", "B", "C", "D", "E", "F", "G", "H",
     "I", "J", "K", "L", "M", "N", "O", "P", "Q", "R", "S", "T", "U", "V", "W", "X", "Y",
     "Z", "_", "$"}

C20_Digits == {"0", "1", "2", "3", "4", "5", "6", "7", "8", "9"}

C20_IsIdentifier(name) ==
    /\ name # <<>>
    /\ name[1] \in C20_Letters
    /\ \A i \in 2..Len(name) : name[i] \in C20_Letters \cup C20_Digits

C20_Usable(name) ==
    C20_IsIdentifier(name) /\ EndsWith(name, sPage) /\ name # sPage

C20_SynthesizedNameIsUsable == nmCalls > 0 => C20_Usable(nmResult)

\* The same for paths whose directories are plain words with inner hyphens,
\* route groups, src and app
C20_PlainSegments == {<<>>, sProj, sSrc, sApp, sBlogPosts, sMarketing}

C20_PlainPath(filename) ==
    \A part \in Range(Split(filename, "/")) : part \in C20_PlainSegments \cup {sPageTsx}

C20_UsableOnPlainPaths ==
    (nmCalls > 0 /\ C20_PlainPath(nmFile)) => C20_Usable(nmResult)

-----------------------------------------------------------------------------
(* C21: the redirect-only finding requires a redirect-only page component:  *)
(* at the end of a traversal the rule reports its diagnostics only if at    *)
(* least one page component (a declarator named ...Page initialised with an *)
(* arrow function or a function expression) was visited and classified as   *)
(* only-redirect; a page file in which a redirect call is visited but no    *)
(* page component is yields no diagnostic.                                  *)
C21_FindingNeedsRedirectOnlyPage ==
    (rdDone /\ rdDiags # <<>>) => (rdHist.sawPageComponent /\ rdHist.someOnlyRedirect)

\* What the code guarantees: a finding means that no visited page component was
\* classified otherwise, which also holds when none was visited
C21_FindingNeedsNoOtherPage ==
    (rdDone /\ rdDiags # <<>>) => (rdHist.sawRedirectCall /\ rdHist.allOnlyRedirect)

====
